---- MODULE Spec2Model ----
(***************************************************************************)
(* The signal / pipe network of `tothe`: the junction graph built from the *)
(* pipes tile layer (level/pipe.rs), the signal router and the travel      *)
(* integrator (interactions/mod.rs) and the acceptor that turns projectile *)
(* hits into signals (interactions/acceptor.rs), run by the per-frame      *)
(* schedule First -> PreUpdate -> Update -> PostUpdate.                     *)
(*                                                                         *)
(* Numbers: a position is an integer count of 1/One of an edge, a frame's  *)
(* delta time an integer count of 1/One of a second, so that               *)
(* `position += speed * dt` is exact integer arithmetic.                   *)
(***************************************************************************)
EXTENDS Integers, Sequences, FiniteSets, TLC

\* ------------------------------------------------------------------ bounds
\* width and height of the pipes layer (TilemapSize)
GridW == 3
GridH == 2
\* most tiles a level of the frame-loop specification places on the layer
MaxTiles == 4
\* most chutes of such a level
MaxChutes == 1
\* signal entities that can be alive or reserved at once
MaxSignals == 16
\* projectiles the player fires at the network
MaxProjectiles == 1
\* a frame's delta time is 1..MaxDt time units
MaxDt == 3
\* time units a signal of speed 12 needs for one edge
TicksPerEdge == 2
\* most samples of a bulge profile made for BuldgeQuery::graph alone
MaxSamples == 3
\* positions in [0, 1) tried with BuldgeQuery::at: the multiples of 1/PosSteps
PosSteps == 4
MaxHits == 2

\* ------------------------------------------------------- program constants
\* `signal.speed = 12.` set by the router
Speed == 12

One == Speed * TicksPerEdge
\* positions the model follows: two whole edges
PosCap == 2 * One

\* ---------------------------------------------------------------- entities
Pos == (0 .. GridW - 1) \X (0 .. GridH - 1)
\* the entity of the tile at a position
TileEnt(pos) == pos[2] * GridW + pos[1] + 1
TileEnts == 1 .. GridW * GridH
SigIds == 1 .. MaxSignals
ProjIds == 1 .. MaxProjectiles
Hostility == {"Friendly", "Hostile"}

\* Option<T>: None is the empty sequence, Some(v) the one-element sequence
None == << >>
Some(v) == << v >>

\* What a position of the pipes layer holds:
\*   Empty  no tile
\*   Bare   a tile entity reserved by merge_pipes_down whose components are
\*          not inserted yet (no Junction, no PipeSegment)
\*   Blue, Red  a pipe segment of the int grid (PipeSegment + Junction)
\*   Chute  PipeEntity::ChuteVertical (Junction + Acceptor + Generator),
\*          no PipeSegment
CellKinds == {"Empty", "Bare", "Blue", "Red", "Chute"}

VARIABLES
    layer,        \* [Pos -> CellKinds], the pipes layer and its tiles' components
    pipes,        \* [TileEnts -> Seq(TileEnts)], Junction::pipes of each tile
    built,        \* a build_pipe_network pass has finished
    signals,      \* live Signal components, a function from signal entity ids
    commands,     \* the Commands queue of the running schedule
    eventsA,      \* Events<SignalEvent>: the older buffer
    eventsB,      \* Events<SignalEvent>: the buffer written this frame
    routerRead,   \* handle_signal_events' EventReader cursor into eventsA \o eventsB
    projectiles,  \* [ProjIds -> record], the projectiles in flight
    hitEvents,    \* Events<HitEvent>: the hit events of this frame
    generatorRead, \* generate_projectile's EventReader cursor
    pc,           \* the schedule the frame is in
    ran,          \* systems of the Update schedule that have run this frame
    routed,       \* history: one record per event the router read in its last run
    travelled,    \* history: the signals and the dt of this frame's integrator tick
    generated,    \* history: the events generate_projectile read in this frame
    arrivals,     \* history: the events the last integrator tick sent
    dropped,      \* history: events discarded by the last Events::update
    delta,        \* Time::delta_seconds of a fixed frame rate, an f32 (0 where dt is drawn per tick)
    ticks,        \* history: [SigIds -> Nat], f32 integrator ticks that moved the signal
    buldges,      \* [TileEnts -> Option<Buldge>], the Buldge component of each tile
    drawn,        \* the last call of BuldgeQuery::graph with its result, or None
    atCalls       \* the calls of BuldgeQuery::at the last step made, with their outcomes

vars == << layer, pipes, built, signals, commands, eventsA, eventsB, routerRead,
           projectiles, hitEvents, generatorRead, pc, ran, routed, travelled,
           generated, arrivals, dropped, delta, ticks, buldges, drawn,
           atCalls >>

\* --------------------------------------------------- queries on the layer
\* TileStorage::get
TilesGet(l, pos) == IF l[pos] = "Empty" THEN None ELSE Some(TileEnt(pos))

PosOf(e) == << (e - 1) % GridW, (e - 1) \div GridW >>

\* Query<&PipeSegment>::get(entity).ok()
ColorsGet(l, e) ==
    IF l[PosOf(e)] \in {"Blue", "Red"} THEN Some(l[PosOf(e)]) ELSE None

\* as HasJunction, taking every tile of the storage for a junction
HasJunctionAnyTile(l, e) == l[PosOf(e)] # "Empty"

\* Query<&Junction>::contains(entity)
HasJunction(l, e) == l[PosOf(e)] \in {"Blue", "Red", "Chute"}

\* Query<&Acceptor>::get(entity).is_ok()
HasAcceptor(l, e) == l[PosOf(e)] = "Chute"

\* Query<(&GlobalTransform, &Generator)>::get(entity).is_ok()
HasGenerator(l, e) == l[PosOf(e)] = "Chute"

\* ------------------------------------------------------------ graph build
\* as Dirs, in the opposite order
DirsReversed == << << 0, -1 >>, << -1, 0 >>, << 0, 1 >>, << 1, 0 >> >>

\* [IVec2::X, IVec2::Y, -IVec2::X, -IVec2::Y]
Dirs == << << 1, 0 >>, << 0, 1 >>, << -1, 0 >>, << 0, -1 >> >>

\* as NeighborPositions, with a bounds test that loses column 0
NeighborPositionsLosesColumn0(pos) ==
    [i \in 1 .. 4 |->
        LET p == << pos[1] + Dirs[i][1], pos[2] + Dirs[i][2] >>
            x_valid == p[1] > 0 /\ p[1] < GridW
            y_valid == p[2] >= 0 /\ p[2] < GridH
        IN  IF x_valid /\ y_valid THEN Some(p) ELSE None]

NeighborPositions(pos) ==
    [i \in 1 .. 4 |->
        LET p == << pos[1] + Dirs[i][1], pos[2] + Dirs[i][2] >>
            x_valid == p[1] >= 0 /\ p[1] < GridW
            y_valid == p[2] >= 0 /\ p[2] < GridH
        IN  IF x_valid /\ y_valid THEN Some(p) ELSE None]

\* as Compatible, without the arm `(Some(_), Some(_)) => false`
CompatibleAlways(color, neighbor_color) == TRUE

Compatible(color, neighbor_color) ==
    IF color # None /\ neighbor_color # None
    THEN color = neighbor_color
    ELSE TRUE

\* the loop of build_junction over the neighbour positions, from the i-th on
RECURSIVE PushNeighbors(_, _, _, _, _)
PushNeighbors(l, list, tile_entity, nbrs, i) ==
    IF i > Len(nbrs) THEN list
    ELSE IF nbrs[i] = None \/ TilesGet(l, nbrs[i][1]) = None
         THEN PushNeighbors(l, list, tile_entity, nbrs, i + 1)
         ELSE LET neighbor_entity == TilesGet(l, nbrs[i][1])[1]
                  compatible == Compatible(ColorsGet(l, tile_entity),
                                           ColorsGet(l, neighbor_entity))
              IN  IF compatible /\ HasJunction(l, neighbor_entity)
                       /\ HasJunction(l, tile_entity)
                  THEN PushNeighbors(l, Append(list, neighbor_entity),
                                     tile_entity, nbrs, i + 1)
                  ELSE PushNeighbors(l, list, tile_entity, nbrs, i + 1)

\* as BuildJunction, without junction.clear(): the pass appends to the list
\* the pass before left
BuildJunctionKeepsList(l, p, pos) ==
    IF TilesGet(l, pos) = None THEN p
    ELSE LET tile_entity == TilesGet(l, pos)[1]
         IN  [p EXCEPT ![tile_entity] =
                 PushNeighbors(l, p[tile_entity], tile_entity, NeighborPositions(pos), 1)]

BuildJunction(l, p, pos) ==
    IF TilesGet(l, pos) = None THEN p
    ELSE LET tile_entity == TilesGet(l, pos)[1]
             cleared == IF HasJunction(l, tile_entity) THEN << >> ELSE p[tile_entity]
         IN  [p EXCEPT ![tile_entity] =
                 PushNeighbors(l, cleared, tile_entity, NeighborPositions(pos), 1)]

\* as BuildFrom, with the loops ending one position early
RECURSIVE BuildFromStopsEarly(_, _, _)
BuildFromStopsEarly(l, p, i) ==
    IF i >= GridW * GridH - 1 THEN p
    ELSE BuildFromStopsEarly(l, BuildJunction(l, p, << i % GridW, i \div GridW >>), i + 1)

\* for y in 0..size.y { for x in 0..size.x { build_junction } }, from the
\* i-th position of that order on
RECURSIVE BuildFrom(_, _, _)
BuildFrom(l, p, i) ==
    IF i >= GridW * GridH THEN p
    ELSE BuildFrom(l, BuildJunction(l, p, << i % GridW, i \div GridW >>), i + 1)

BuildPipeNetworkResult(l, p) == BuildFrom(l, p, 0)

\* ------------------------------------------------------------- commands
\* Commands are queued by a system and applied, in order, when the schedule
\* the system ran in ends (apply_deferred).
SpawnSignal(id, sig) == [op |-> "spawn", id |-> id, signal |-> sig]
DespawnSignal(id) == [op |-> "despawn", id |-> id]
DespawnProjectile(id) == [op |-> "despawn_projectile", id |-> id]
\* CreateProjectile::new(prefab, location).hostility(hostility)
CreateProjectile(hostility) == [op |-> "create_projectile", hostility |-> hostility]

\* entity ids handed out by Commands::spawn but not yet in the world
Reserved(cmds) == {cmds[i].id : i \in {j \in 1 .. Len(cmds) : cmds[j].op = "spawn"}}

SetMin(S) == CHOOSE m \in S : \A n \in S : m <= n

\* as FreeIds, handing out ids of live signals again
FreeIdsReused(sigs, cmds) == SigIds \ Reserved(cmds)

\* the id Commands::spawn reserves next
FreeIds(sigs, cmds) == SigIds \ (DOMAIN sigs \cup Reserved(cmds))

\* as ApplyCommand, with despawn commands lost
ApplyCommandNoDespawn(sigs, c) ==
    IF c.op = "spawn"
    THEN [i \in DOMAIN sigs \cup {c.id} |-> IF i = c.id THEN c.signal ELSE sigs[i]]
    ELSE sigs

ApplyCommand(sigs, c) ==
    IF c.op = "spawn"
    THEN [i \in DOMAIN sigs \cup {c.id} |-> IF i = c.id THEN c.signal ELSE sigs[i]]
    ELSE IF c.op = "despawn"
    THEN [i \in DOMAIN sigs \ {c.id} |-> sigs[i]]
    ELSE sigs

RECURSIVE ApplyCommands(_, _, _)
ApplyCommands(sigs, cmds, i) ==
    IF i > Len(cmds) THEN sigs
    ELSE ApplyCommands(ApplyCommand(sigs, cmds[i]), cmds, i + 1)

ApplyProjectileCommands(projs, cmds) ==
    [p \in ProjIds |->
        IF \E i \in 1 .. Len(cmds) : cmds[i].op = "despawn_projectile" /\ cmds[i].id = p
        THEN [projs[p] EXCEPT !.alive = FALSE, !.absorbed = FALSE]
        ELSE projs[p]]

\* --------------------------------------------------------------- signals
\* as SignalAt, with the router's speed from the start
SignalAtMoving(data, source) ==
    [data |-> data, source |-> source, destination |-> None,
     position |-> 0, speed |-> Speed]

\* Signal::at
SignalAt(data, source) ==
    [data |-> data, source |-> source, destination |-> None,
     position |-> 0, speed |-> 0]

\* SignalEvent; age and reads are history fields (frames since it was sent,
\* times handle_signal_events has read it)
SignalEvent(sender, receiver, signal, overfill) ==
    [sender |-> sender, receiver |-> receiver, signal |-> signal,
     overfill |-> overfill, age |-> 0, reads |-> 0]

\* ---------------------------------------------------------------- router
\* as Outputs, without the filter on the sender
OutputsUnfiltered(list, sender) == list

\* junction.pipes.iter().filter(|pipe| pipe.receiver != ev.sender)
Outputs(list, sender) ==
    LET keep(r) == r # sender
    IN  SelectSeq(list, keep)

\* as SpawnOthers, spawning for one more output only (an `if let` in place of
\* the `for`)
SpawnOthersOnce(st, outputs, k, ev, data) ==
    IF k > Len(outputs) THEN st
    ELSE IF FreeIds(st.signals, st.commands) = {}
    THEN [st EXCEPT !.ok = FALSE]
    ELSE LET id == SetMin(FreeIds(st.signals, st.commands))
             sig == [data |-> data, source |-> ev.receiver,
                     destination |-> Some(outputs[k]),
                     position |-> ev.overfill, speed |-> Speed]
         IN  [st EXCEPT !.commands = Append(@, SpawnSignal(id, sig))]

\* as SpawnOthers, spawning signals with a payload of their own
RECURSIVE SpawnOthersFreshData(_, _, _, _, _)
SpawnOthersFreshData(st, outputs, k, ev, data) ==
    IF k > Len(outputs) THEN st
    ELSE IF FreeIds(st.signals, st.commands) = {}
    THEN [st EXCEPT !.ok = FALSE]
    ELSE LET id == SetMin(FreeIds(st.signals, st.commands))
             sig == [data |-> "Friendly", source |-> ev.receiver,
                     destination |-> Some(outputs[k]),
                     position |-> ev.overfill, speed |-> Speed]
         IN  SpawnOthersFreshData([st EXCEPT !.commands = Append(@, SpawnSignal(id, sig))],
                                  outputs, k + 1, ev, data)

\* the `for output in outputs` loop that spawns the other signals, from the
\* k-th output on; st is [signals, commands, ok]
RECURSIVE SpawnOthers(_, _, _, _, _)
SpawnOthers(st, outputs, k, ev, data) ==
    IF k > Len(outputs) THEN st
    ELSE IF FreeIds(st.signals, st.commands) = {}
    THEN [st EXCEPT !.ok = FALSE]
    ELSE LET id == SetMin(FreeIds(st.signals, st.commands))
             sig == [data |-> data, source |-> ev.receiver,
                     destination |-> Some(outputs[k]),
                     position |-> ev.overfill, speed |-> Speed]
         IN  SpawnOthers([st EXCEPT !.commands = Append(@, SpawnSignal(id, sig))],
                         outputs, k + 1, ev, data)

\* as RouteEvent, with the signal left on the pipe it came by
RouteEventKeepsEdge(st, l, p, ev) ==
    IF ev.signal \notin DOMAIN st.signals THEN st
    ELSE IF ~ HasJunction(l, ev.receiver) THEN st
    ELSE
    LET signal == st.signals[ev.signal]
        outputs == Outputs(p[ev.receiver], ev.sender)
    IN  IF outputs = << >>
        THEN [st EXCEPT !.commands = Append(@, DespawnSignal(ev.signal))]
        ELSE LET moved == [signal EXCEPT !.speed = Speed,
                                         !.position = ev.overfill]
             IN  SpawnOthers([st EXCEPT !.signals[ev.signal] = moved],
                             outputs, 2, ev, signal.data)

\* as RouteEvent, with the signal sent back to where it came from
RouteEventTurnsBack(st, l, p, ev) ==
    IF ev.signal \notin DOMAIN st.signals THEN st
    ELSE IF ~ HasJunction(l, ev.receiver) THEN st
    ELSE
    LET signal == st.signals[ev.signal]
        outputs == Outputs(p[ev.receiver], ev.sender)
    IN  IF outputs = << >>
        THEN [st EXCEPT !.commands = Append(@, DespawnSignal(ev.signal))]
        ELSE LET moved == [signal EXCEPT !.source = ev.receiver,
                                         !.destination = Some(ev.sender),
                                         !.speed = Speed,
                                         !.position = ev.overfill]
             IN  SpawnOthers([st EXCEPT !.signals[ev.signal] = moved],
                             outputs, 2, ev, signal.data)

\* as RouteEvent, without the despawn at a dead end
RouteEventKeepsDeadEnd(st, l, p, ev) ==
    IF ev.signal \notin DOMAIN st.signals THEN st
    ELSE IF ~ HasJunction(l, ev.receiver) THEN st
    ELSE
    LET signal == st.signals[ev.signal]
        outputs == Outputs(p[ev.receiver], ev.sender)
    IN  IF outputs = << >>
        THEN st
        ELSE LET moved == [signal EXCEPT !.source = ev.receiver,
                                         !.destination = Some(outputs[1]),
                                         !.speed = Speed,
                                         !.position = ev.overfill]
             IN  SpawnOthers([st EXCEPT !.signals[ev.signal] = moved],
                             outputs, 2, ev, signal.data)

\* the body of the `for ev in signal_events.iter()` loop of
\* handle_signal_events; st is [signals, commands, ok]
RouteEvent(st, l, p, ev) ==
    IF ev.signal \notin DOMAIN st.signals THEN st
    ELSE IF ~ HasJunction(l, ev.receiver) THEN st
    ELSE
    LET signal == st.signals[ev.signal]
        outputs == Outputs(p[ev.receiver], ev.sender)
    IN  IF outputs = << >>
        THEN [st EXCEPT !.commands = Append(@, DespawnSignal(ev.signal))]
        ELSE LET moved == [signal EXCEPT !.source = ev.receiver,
                                         !.destination = Some(outputs[1]),
                                         !.speed = Speed,
                                         !.position = ev.overfill]
             IN  SpawnOthers([st EXCEPT !.signals[ev.signal] = moved],
                             outputs, 2, ev, signal.data)

\* the fields of an event without its history fields
Pure(ev) == [sender |-> ev.sender, receiver |-> ev.receiver,
             signal |-> ev.signal, overfill |-> ev.overfill]

\* the loop of handle_signal_events from the i-th unread event on; log gets,
\* per event, the world and the command queue before and after its turn
RECURSIVE RouteEvents(_, _, _, _, _, _)
RouteEvents(st, log, l, p, evs, i) ==
    IF i > Len(evs) THEN [st |-> st, log |-> log]
    ELSE LET next == RouteEvent(st, l, p, evs[i])
             entry == [ev |-> Pure(evs[i]),
                       pre |-> [signals |-> st.signals, commands |-> st.commands],
                       post |-> [signals |-> next.signals, commands |-> next.commands]]
         IN  RouteEvents(next, Append(log, entry), l, p, evs, i + 1)

\* as ReaderAfterUpdate, with a cursor that does not follow the buffers
ReaderKeepsCursor(cursor, lenA) == cursor

\* the reader's cursor after Events::update has discarded the lenA events of
\* the older buffer: events it had not read yet are lost to it
ReaderAfterUpdate(cursor, lenA) == IF cursor > lenA THEN cursor - lenA ELSE 0

\* EventReader::iter marks everything up to the end of the buffers as read
MarkRead(buf, from) ==
    [i \in 1 .. Len(buf) |->
        IF i >= from THEN [buf[i] EXCEPT !.reads = @ + 1] ELSE buf[i]]

\* -------------------------------------------------------------- integrator
\* the body of signal_travel's loop for one signal
Advance(sig, dt) ==
    IF sig.destination # None
    THEN [sig EXCEPT !.position = @ + sig.speed * dt]
    ELSE sig

\* as ArrivalEvents, with `>` in place of `>=`
RECURSIVE ArrivalEventsStrict(_, _, _)
ArrivalEventsStrict(sigs, moved, i) ==
    IF i > MaxSignals THEN << >>
    ELSE IF i \in DOMAIN sigs /\ sigs[i].destination # None /\ moved[i].position > One
    THEN << SignalEvent(moved[i].source, moved[i].destination[1], i,
                        moved[i].position - One) >>
         \o ArrivalEventsStrict(sigs, moved, i + 1)
    ELSE ArrivalEventsStrict(sigs, moved, i + 1)

\* the events signal_travel sends, in the order of the query (by entity id),
\* for the signals with id >= i
RECURSIVE ArrivalEvents(_, _, _)
ArrivalEvents(sigs, moved, i) ==
    IF i > MaxSignals THEN << >>
    ELSE IF i \in DOMAIN sigs /\ sigs[i].destination # None /\ moved[i].position >= One
    THEN << SignalEvent(moved[i].source, moved[i].destination[1], i,
                        moved[i].position - One) >>
         \o ArrivalEvents(sigs, moved, i + 1)
    ELSE ArrivalEvents(sigs, moved, i + 1)

\* ---------------------------------------------------------------- acceptor
\* HitEvent (its `result` plays no part here)
HitEvent(projectile, entity) == [projectile |-> projectile, entity |-> entity]

\* an entity with a collider that is no tile of the pipes layer
OtherEntity == GridW * GridH + 1

\* as AcceptHit, without `proj.projectile.absorbed = false`
AcceptHitKeepsAbsorbed(st, l, sigs, ev) ==
    IF st.projectiles[ev.projectile].alive
       /\ ev.entity \in TileEnts /\ HasAcceptor(l, ev.entity)
    THEN IF FreeIds(sigs, st.commands) = {}
         THEN [st EXCEPT !.ok = FALSE]
         ELSE LET me == ev.entity
                  signal == SetMin(FreeIds(sigs, st.commands))
                  sig == SignalAt(st.projectiles[ev.projectile].hostility, me)
              IN  [projectiles |-> st.projectiles,
                   commands |-> st.commands \o << DespawnProjectile(ev.projectile),
                                                   SpawnSignal(signal, sig) >>,
                   events |-> Append(st.events, SignalEvent(me, me, signal, 0)),
                   ok |-> st.ok]
    ELSE st

\* the body of accept_projectiles' loop; st is [projectiles, commands, events, ok]
AcceptHit(st, l, sigs, ev) ==
    IF st.projectiles[ev.projectile].alive
       /\ ev.entity \in TileEnts /\ HasAcceptor(l, ev.entity)
    THEN IF FreeIds(sigs, st.commands) = {}
         THEN [st EXCEPT !.ok = FALSE]
         ELSE LET me == ev.entity
                  signal == SetMin(FreeIds(sigs, st.commands))
                  sig == SignalAt(st.projectiles[ev.projectile].hostility, me)
              IN  [projectiles |-> [st.projectiles EXCEPT ![ev.projectile].absorbed = FALSE],
                   commands |-> st.commands \o << DespawnProjectile(ev.projectile),
                                                   SpawnSignal(signal, sig) >>,
                   events |-> Append(st.events, SignalEvent(me, me, signal, 0)),
                   ok |-> st.ok]
    ELSE st

RECURSIVE AcceptHits(_, _, _, _, _)
AcceptHits(st, l, sigs, hits, i) ==
    IF i > Len(hits) THEN st
    ELSE AcceptHits(AcceptHit(st, l, sigs, hits[i]), l, sigs, hits, i + 1)

\* ----------------------------------------------------------------- buldges
\* A width is an f32 counted in hundredths: FullWidth is `1.`
FullWidth == 100

\* as BuldgeNew, with the incoming array not reversed
BuldgeNewSameIncoming(from) == [outgoing |-> from, incoming |-> from]

\* Buldge::new
BuldgeNew(from) ==
    [outgoing |-> from,
     incoming |-> [i \in 1 .. Len(from) |-> from[Len(from) + 1 - i]]]

\* Buldge::no_cover
NoCover == BuldgeNew(<< 0, 0, 0, 15, 50, 75, 100, 100 >>)

\* f32::min of two widths
MinWidth(a, b) == IF a <= b THEN a ELSE b

\* std::cmp::min of two lengths
MinLen(a, b) == IF a <= b THEN a ELSE b

\* as GraphOf, merging with the outgoing profile of `to`
GraphOfOutgoing(b, from, to) ==
    IF b[from] # None /\ b[to] # None
    THEN [i \in 1 .. MinLen(Len(b[from][1].outgoing), Len(b[to][1].outgoing)) |->
             MinWidth(b[from][1].outgoing[i], b[to][1].outgoing[i])]
    ELSE IF b[from] # None THEN b[from][1].outgoing
    ELSE IF b[to] # None THEN b[to][1].outgoing
    ELSE << FullWidth >>

\* BuldgeQuery::graph; b[e] is the result of `self.query.get(e)`
GraphOf(b, from, to) ==
    IF b[from] # None /\ b[to] # None
    THEN [i \in 1 .. MinLen(Len(b[from][1].outgoing), Len(b[to][1].incoming)) |->
             MinWidth(b[from][1].outgoing[i], b[to][1].incoming[i])]
    ELSE IF b[from] # None THEN b[from][1].outgoing
    ELSE IF b[to] # None THEN b[to][1].incoming
    ELSE << FullWidth >>

\* merge_pipes_down gives chutes Buldge::no_cover(); pipe segments have none
LayerBuldges(l) ==
    [e \in TileEnts |-> IF l[PosOf(e)] = "Chute" THEN Some(NoCover) ELSE None]

\* ------------------------------------------------------------------ levels
\* a level: at most MaxTiles occupied positions, each with a kind of tile
LayerOf(S, k) == [pos \in Pos |-> IF pos \in S THEN k[pos] ELSE "Empty"]

TileSets == {S \in SUBSET Pos : Cardinality(S) <= MaxTiles}

\* levels of the frame loop: pipe segments of both colours and at most
\* MaxChutes chutes (untyped junctions that accept projectiles)
LevelKinds(S) ==
    {k \in [S -> {"Chute", "Blue", "Red"}] :
        Cardinality({pos \in S : k[pos] = "Chute"}) <= MaxChutes}

\* a position with its in-bounds 4-neighbours: all build_junction reads
Neighbourhood(c) ==
    {c} \cup {pos \in Pos : \E i \in 1 .. 4 :
                  pos = << c[1] + Dirs[i][1], c[2] + Dirs[i][2] >>}

\* -------------------------------------------------------------- generator
\* as GenerateFor, without the test `ev.sender == ev.receiver`
GenerateForAnySender(l, sigs, ev) ==
    IF ~ HasGenerator(l, ev.receiver) THEN << >>
    ELSE IF ev.signal \notin DOMAIN sigs THEN << >>
    ELSE << CreateProjectile(sigs[ev.signal].data) >>

\* the body of generate_projectile's loop: the commands it adds for one event
GenerateFor(l, sigs, ev) ==
    IF ev.sender = ev.receiver THEN << >>
    ELSE IF ~ HasGenerator(l, ev.receiver) THEN << >>
    ELSE IF ev.signal \notin DOMAIN sigs THEN << >>
    ELSE << CreateProjectile(sigs[ev.signal].data) >>

RECURSIVE GenerateProjectiles(_, _, _, _)
GenerateProjectiles(l, sigs, evs, i) ==
    IF i > Len(evs) THEN << >>
    ELSE GenerateFor(l, sigs, evs[i]) \o GenerateProjectiles(l, sigs, evs, i + 1)

\* ------------------------------------------------------------------- frame
\* The systems of Update the model follows.  The projectile systems share no
\* data with signal_travel and generate_projectile, so the executor's order
\* between them does not matter; the model runs the hit events first and
\* despawn_projectiles last.  accept_projectiles runs after the hit events
\* and before despawn_projectiles, generate_projectile after signal_travel;
\* accept_projectiles and the two signal systems run in any order.
UpdateSystems == {"projectile_events", "accept_projectiles", "signal_travel",
                  "generate_projectile", "despawn_projectiles"}

InitRest ==
    /\ pipes = [e \in TileEnts |-> << >>]
    /\ built = FALSE
    /\ signals = << >>
    /\ commands = << >>
    /\ eventsA = << >>
    /\ eventsB = << >>
    /\ routerRead = 0
    /\ generatorRead = 0
    /\ hitEvents = << >>
    /\ projectiles \in [ProjIds -> [alive : {TRUE}, hostility : Hostility, absorbed : {FALSE}]]
    /\ pc = "First"
    /\ ran = {}
    /\ routed = << >>
    /\ travelled = [dt |-> 0, before |-> << >>]
    /\ generated = << >>
    /\ arrivals = << >>
    /\ dropped = << >>
    /\ ticks = [i \in SigIds |-> 0]
    /\ buldges = LayerBuldges(layer)
    /\ drawn = None
    /\ atCalls = << >>

Init ==
    /\ \E S \in TileSets : \E k \in LevelKinds(S) : layer = LayerOf(S, k)
    /\ InitRest
    /\ delta = 0

\* Between two frames the level may be unloaded (the LevelSelection moved
\* on): its tiles are despawned with their components.
EmptyLayer == [pos \in Pos |-> "Empty"]

UnloadLevel ==
    /\ pc = "First"
    /\ layer # EmptyLayer
    /\ layer' = EmptyLayer
    /\ pipes' = [e \in TileEnts |-> << >>]
    /\ buldges' = [e \in TileEnts |-> None]
    /\ UNCHANGED << atCalls, drawn, delta, ticks, built, signals, commands, eventsA, eventsB, routerRead,
                    projectiles, hitEvents, generatorRead, pc, ran, routed,
                    travelled, generated, arrivals, dropped >>

\* First: Events<SignalEvent>::update swaps the buffers and clears the older
EventUpdate ==
    /\ pc = "First"
    /\ dropped' = eventsA
    /\ eventsA' = [i \in 1 .. Len(eventsB) |-> [eventsB[i] EXCEPT !.age = @ + 1]]
    /\ eventsB' = << >>
    /\ routerRead' = ReaderAfterUpdate(routerRead, Len(eventsA))
    /\ generatorRead' = ReaderAfterUpdate(generatorRead, Len(eventsA))
    /\ routed' = << >>
    /\ pc' = "PreUpdate"
    /\ UNCHANGED << atCalls, buldges, drawn, delta, ticks, layer, pipes, built, signals, commands, projectiles, hitEvents,
                    ran, travelled, generated, arrivals >>

\* PreUpdate: handle_signal_events
HandleSignalEvents ==
    /\ pc = "PreUpdate"
    /\ LET all == eventsA \o eventsB
           unread == SubSeq(all, routerRead + 1, Len(all))
           res == RouteEvents([signals |-> signals, commands |-> commands, ok |-> TRUE],
                              << >>, layer, pipes, unread, 1)
       IN  /\ res.st.ok
           /\ signals' = res.st.signals
           /\ commands' = res.st.commands
           /\ routed' = res.log
           /\ eventsA' = MarkRead(eventsA, routerRead + 1)
           /\ eventsB' = MarkRead(eventsB, routerRead + 1 - Len(eventsA))
           /\ routerRead' = Len(all)
    /\ pc' = "PreUpdateFlush"
    /\ UNCHANGED << atCalls, buldges, drawn, delta, ticks, layer, pipes, built, projectiles, hitEvents, generatorRead, ran,
                    travelled, generated, arrivals, dropped >>

\* the end of a schedule: the queued commands are applied to the world
ApplyDeferred ==
    /\ pc \in {"PreUpdateFlush", "UpdateFlush"}
    /\ signals' = ApplyCommands(signals, commands, 1)
    /\ projectiles' = ApplyProjectileCommands(projectiles, commands)
    /\ commands' = << >>
    /\ pc' = IF pc = "PreUpdateFlush" THEN "Update" ELSE "PostUpdate"
    /\ ran' = {}
    /\ hitEvents' = << >>
    /\ travelled' = [dt |-> 0, before |-> << >>]
    /\ generated' = << >>
    /\ ticks' = [i \in SigIds |->
                    IF i \in DOMAIN ApplyCommands(signals, commands, 1) THEN ticks[i] ELSE 0]
    /\ UNCHANGED << atCalls, buldges, drawn, delta, layer, pipes, built, eventsA, eventsB, routerRead, generatorRead,
                    routed, arrivals, dropped >>

AfterUpdateSystem(name) ==
    /\ ran' = ran \cup {name}
    /\ pc' = IF ran \cup {name} = UpdateSystems THEN "UpdateFlush" ELSE "Update"

\* Update, ProjectileSystem::Event: (create_hit_events, set_absorb_flag).chain()
\* with the hit events create_hit_events copies from this frame's collisions
ProjectileEvents(hits) ==
    /\ pc = "Update"
    /\ ran = {}
    /\ hitEvents' = hits
    /\ projectiles' =
          [p \in ProjIds |->
              IF projectiles[p].alive
                 /\ \E i \in 1 .. Len(hits) : hits[i].projectile = p
              THEN [projectiles[p] EXCEPT !.absorbed = TRUE]
              ELSE projectiles[p]]
    /\ AfterUpdateSystem("projectile_events")
    /\ UNCHANGED << atCalls, buldges, drawn, delta, ticks, layer, pipes, built, signals, commands, eventsA, eventsB,
                    routerRead, generatorRead, routed, travelled, generated,
                    arrivals, dropped >>

\* Update: signal_travel, with Time::delta_seconds = dt / One
SignalTravel(dt) ==
    /\ pc = "Update"
    /\ "projectile_events" \in ran
    /\ "signal_travel" \notin ran
    /\ LET moved == [i \in DOMAIN signals |-> Advance(signals[i], dt)]
       IN  /\ \A i \in DOMAIN signals : moved[i].position <= PosCap
           /\ signals' = moved
           /\ eventsB' = eventsB \o ArrivalEvents(signals, moved, 1)
           /\ arrivals' = [i \in 1 .. Len(ArrivalEvents(signals, moved, 1)) |->
                              Pure(ArrivalEvents(signals, moved, 1)[i])]
    /\ travelled' = [dt |-> dt, before |-> signals]
    /\ AfterUpdateSystem("signal_travel")
    /\ UNCHANGED << atCalls, buldges, drawn, delta, ticks, layer, pipes, built, commands, eventsA, routerRead,
                    projectiles, hitEvents, generatorRead, routed, generated, dropped >>

\* as GenerateProjectile, not ordered after signal_travel
GenerateProjectileAnyOrder ==
    /\ pc = "Update"
    /\ "projectile_events" \in ran
    /\ "generate_projectile" \notin ran
    /\ LET all == eventsA \o eventsB
           unread == SubSeq(all, generatorRead + 1, Len(all))
       IN  /\ commands' = commands \o GenerateProjectiles(layer, signals, unread, 1)
           /\ generated' = [i \in 1 .. Len(unread) |-> Pure(unread[i])]
           /\ generatorRead' = Len(all)
    /\ AfterUpdateSystem("generate_projectile")
    /\ UNCHANGED << atCalls, buldges, drawn, delta, ticks, layer, pipes, built, signals, eventsA, eventsB, routerRead,
                    projectiles, hitEvents, routed, travelled, arrivals, dropped >>

\* Update: generate_projectile, after signal_travel
GenerateProjectile ==
    /\ pc = "Update"
    /\ "signal_travel" \in ran
    /\ "generate_projectile" \notin ran
    /\ LET all == eventsA \o eventsB
           unread == SubSeq(all, generatorRead + 1, Len(all))
       IN  /\ commands' = commands \o GenerateProjectiles(layer, signals, unread, 1)
           /\ generated' = [i \in 1 .. Len(unread) |-> Pure(unread[i])]
           /\ generatorRead' = Len(all)
    /\ AfterUpdateSystem("generate_projectile")
    /\ UNCHANGED << atCalls, buldges, drawn, delta, ticks, layer, pipes, built, signals, eventsA, eventsB, routerRead,
                    projectiles, hitEvents, routed, travelled, arrivals, dropped >>

\* Update: accept_projectiles, reading this frame's hit events
AcceptProjectiles ==
    /\ pc = "Update"
    /\ "projectile_events" \in ran
    /\ "accept_projectiles" \notin ran
    /\ LET st == AcceptHits([projectiles |-> projectiles, commands |-> commands,
                             events |-> << >>, ok |-> TRUE],
                            layer, signals, hitEvents, 1)
       IN  /\ st.ok
           /\ projectiles' = st.projectiles
           /\ commands' = st.commands
           /\ eventsB' = eventsB \o st.events
    /\ AfterUpdateSystem("accept_projectiles")
    /\ UNCHANGED << atCalls, buldges, drawn, delta, ticks, layer, pipes, built, signals, eventsA, routerRead, hitEvents,
                    generatorRead, routed, travelled, generated, arrivals, dropped >>

\* Update, ProjectileSystem::Despawn: despawn_projectiles; expired are the
\* projectiles this frame's DespawnEvents name (TimeToLive ran out)
DespawnProjectiles(expired) ==
    /\ pc = "Update"
    /\ ran = UpdateSystems \ {"despawn_projectiles"}
    /\ LET ids == [p \in 1 .. MaxProjectiles |-> p]
           isAbsorbed(p) == projectiles[p].alive /\ projectiles[p].absorbed
           isExpired(p) == p \in expired
           cmd(seq) == [i \in 1 .. Len(seq) |-> DespawnProjectile(seq[i])]
       IN  commands' = commands \o cmd(SelectSeq(ids, isAbsorbed))
                                \o cmd(SelectSeq(ids, isExpired))
    /\ AfterUpdateSystem("despawn_projectiles")
    /\ UNCHANGED << atCalls, buldges, drawn, delta, ticks, layer, pipes, built, signals, eventsA, eventsB, routerRead,
                    projectiles, hitEvents, generatorRead, routed, travelled,
                    generated, arrivals, dropped >>

\* PostUpdate: build_pipe_network
BuildPipeNetwork ==
    /\ pc = "PostUpdate"
    /\ pipes' = BuildPipeNetworkResult(layer, pipes)
    /\ built' = TRUE
    /\ pc' = "First"
    /\ UNCHANGED << atCalls, buldges, drawn, delta, ticks, layer, signals, commands, eventsA, eventsB, routerRead,
                    projectiles, hitEvents, generatorRead, ran, routed, travelled,
                    generated, arrivals, dropped >>

\* the hit events of one frame: none, or one projectile in flight touching a
\* chute's collider or something else
HitInputs ==
    {<< >>} \cup
    {<< HitEvent(p, e) >> : p \in {q \in ProjIds : projectiles[q].alive},
                            e \in {t \in TileEnts : HasAcceptor(layer, t)} \cup {OtherEntity}}

\* the projectiles whose TimeToLive may run out in a frame
ExpiredInputs == SUBSET {q \in ProjIds : projectiles[q].alive}

Next ==
    \/ UnloadLevel
    \/ EventUpdate
    \/ HandleSignalEvents
    \/ ApplyDeferred
    \/ \E hits \in HitInputs : ProjectileEvents(hits)
    \/ \E dt \in 1 .. MaxDt : SignalTravel(dt)
    \/ GenerateProjectile
    \/ AcceptProjectiles
    \/ \E expired \in ExpiredInputs : DespawnProjectiles(expired)
    \/ BuildPipeNetwork

Spec == Init /\ [][Next]_vars

\* The frame loop at a frame rate high enough that a signal moves less than
\* one edge per tick: speed * dt < 1.
SmallDts == {dt \in 1 .. MaxDt : Speed * dt < One}

NextSmallTicks ==
    \/ UnloadLevel
    \/ EventUpdate
    \/ HandleSignalEvents
    \/ ApplyDeferred
    \/ \E hits \in HitInputs : ProjectileEvents(hits)
    \/ \E dt \in SmallDts : SignalTravel(dt)
    \/ GenerateProjectile
    \/ AcceptProjectiles
    \/ \E expired \in ExpiredInputs : DespawnProjectiles(expired)
    \/ BuildPipeNetwork

SpecSmallTicks == Init /\ [][NextSmallTicks]_vars

\* The frame loop over a level that stays loaded and whose junction graph has
\* no cycle. The junctions left when those with at most one edge among `nodes`
\* are taken away over and over: none is left exactly when no cycle joins them
RECURSIVE StripLeaves(_, _)
StripLeaves(p, nodes) ==
    LET leaves == {n \in nodes :
                      Cardinality({i \in 1 .. Len(p[n]) : p[n][i] \in nodes}) <= 1}
    IN  IF leaves = {} THEN nodes ELSE StripLeaves(p, nodes \ leaves)

\* the Junction::pipes lists build_pipe_network makes of the layer join no cycle
Forest(l) ==
    StripLeaves(BuildPipeNetworkResult(l, [e \in TileEnts |-> << >>]),
                {e \in TileEnts : HasJunction(l, e)}) = {}

\* levels of one chute and pipe segments of one colour: every shape of graph
\* that MaxTiles junctions can make, with the acceptor at any of them
ForestKinds(S) ==
    {k \in [S -> {"Chute", "Blue"}] :
        Cardinality({pos \in S : k[pos] = "Chute"}) = 1}

InitForest ==
    /\ \E S \in TileSets : \E k \in ForestKinds(S) :
          /\ Forest(LayerOf(S, k))
          /\ layer = LayerOf(S, k)
    /\ InitRest
    /\ \A p \in ProjIds : projectiles[p].hostility = "Friendly"
    /\ delta = 0

NextLoaded ==
    \/ EventUpdate
    \/ HandleSignalEvents
    \/ ApplyDeferred
    \/ \E hits \in HitInputs : ProjectileEvents(hits)
    \/ \E dt \in 1 .. MaxDt : SignalTravel(dt)
    \/ GenerateProjectile
    \/ AcceptProjectiles
    \/ \E expired \in ExpiredInputs : DespawnProjectiles(expired)
    \/ BuildPipeNetwork

\* App::run runs the schedules of a frame, one frame after the other, for as
\* long as the app lives: the frame loop never stops while a step is left
SpecForest == InitForest /\ [][NextLoaded]_vars /\ WF_vars(NextLoaded)

\* The frame loop over the level whose every position holds a junction, a
\* chute in the corner and pipe segments of one colour: the cycles of the
\* grid's squares share junctions.
CyclesLayer == [pos \in Pos |-> IF pos = << 0, 0 >> THEN "Chute" ELSE "Blue"]

InitCycles ==
    /\ layer = CyclesLayer
    /\ InitRest
    /\ delta = 0

SpecCycles == InitCycles /\ [][NextLoaded]_vars

\* The frame loop with no projectile in flight, for the graph build alone:
\* every filling of one position's neighbourhood with every kind of tile.
InitBuild ==
    /\ \E c \in Pos : \E k \in [Neighbourhood(c) -> CellKinds] :
          layer = LayerOf(Neighbourhood(c), k)
    /\ pipes = [e \in TileEnts |-> << >>]
    /\ built = FALSE
    /\ signals = << >>
    /\ commands = << >>
    /\ eventsA = << >>
    /\ eventsB = << >>
    /\ routerRead = 0
    /\ generatorRead = 0
    /\ hitEvents = << >>
    /\ projectiles = [p \in ProjIds |-> [alive |-> FALSE, hostility |-> "Friendly",
                                          absorbed |-> FALSE]]
    /\ pc = "PostUpdate"
    /\ ran = {}
    /\ routed = << >>
    /\ travelled = [dt |-> 0, before |-> << >>]
    /\ generated = << >>
    /\ arrivals = << >>
    /\ dropped = << >>
    /\ ticks = [i \in SigIds |-> 0]
    /\ delta = 0
    /\ buldges = LayerBuldges(layer)
    /\ drawn = None
    /\ atCalls = << >>

SpecBuild == InitBuild /\ [][Next]_vars

\* ------------------------------------------------- the integrator in f32
\* Signal::position, SignalEvent::overfill and Time::delta_seconds are f32.
\* Here an f32 is the integer count of 2^-30 it stands for, and the result of
\* every operation is rounded to the 24 significant bits of an f32, ties to
\* even, as `+` and `*` on f32 do.
OneF32 == 2 ^ 30

\* the distance between two neighbouring f32 values at the magnitude of n
RECURSIVE Ulp(_)
Ulp(n) == IF n < 2 ^ 24 THEN 1 ELSE 2 * Ulp(n \div 2)

\* as RoundF32, rounding towards zero
RoundF32Down(n) == (n \div Ulp(n)) * Ulp(n)

\* the f32 nearest to n, ties to even
RoundF32(n) ==
    LET u == Ulp(n)
        q == n \div u
        r == n % u
    IN  IF 2 * r > u \/ (2 * r = u /\ q % 2 = 1) THEN (q + 1) * u ELSE q * u

\* the body of signal_travel's loop for one signal:
\* `signal.position += signal.speed * time.delta_seconds()`
AdvanceF32(sig, dt) ==
    IF sig.destination # None
    THEN [sig EXCEPT !.position = RoundF32(@ + RoundF32(sig.speed * dt))]
    ELSE sig

\* the events signal_travel sends, as ArrivalEvents; `position - 1.` is exact
\* for a position in [1, 2)
RECURSIVE ArrivalEventsF32(_, _, _)
ArrivalEventsF32(sigs, moved, i) ==
    IF i > MaxSignals THEN << >>
    ELSE IF i \in DOMAIN sigs /\ sigs[i].destination # None
            /\ moved[i].position >= OneF32
    THEN << SignalEvent(moved[i].source, moved[i].destination[1], i,
                        RoundF32(moved[i].position - OneF32)) >>
         \o ArrivalEventsF32(sigs, moved, i + 1)
    ELSE ArrivalEventsF32(sigs, moved, i + 1)

\* Update: signal_travel at the fixed frame time delta
SignalTravelF32 ==
    /\ pc = "Update"
    /\ "projectile_events" \in ran
    /\ "signal_travel" \notin ran
    /\ LET moved == [i \in DOMAIN signals |-> AdvanceF32(signals[i], delta)]
       IN  /\ signals' = moved
           /\ eventsB' = eventsB \o ArrivalEventsF32(signals, moved, 1)
           /\ arrivals' = [i \in 1 .. Len(ArrivalEventsF32(signals, moved, 1)) |->
                              Pure(ArrivalEventsF32(signals, moved, 1)[i])]
    /\ travelled' = [dt |-> delta, before |-> signals]
    /\ ticks' = [i \in SigIds |->
                    IF i \in DOMAIN signals /\ signals[i].destination # None
                    THEN ticks[i] + 1 ELSE ticks[i]]
    /\ AfterUpdateSystem("signal_travel")
    /\ UNCHANGED << atCalls, buldges, drawn, delta, layer, pipes, built, commands, eventsA, routerRead,
                    projectiles, hitEvents, generatorRead, routed, generated, dropped >>

\* The chain A-B-C: three chutes (junctions without a PipeSegment) in a row.
ChainLayer ==
    [pos \in Pos |-> IF pos[2] = 0 /\ pos[1] <= 2 THEN "Chute" ELSE "Empty"]

ChainEnds == {TileEnt(<< 0, 0 >>), TileEnt(<< 2, 0 >>)}
ChainMiddle == TileEnt(<< 1, 0 >>)

\* The frame times of 120 frames a second, speed * dt = 12 / 120: the two f32
\* on either side of 1/120 (8947848 * 2^-30 < 1/120 < 8947849 * 2^-30; the
\* second is the nearer one, `1. / 120.` as an f32).
ChainDeltas == {8947848, 8947849}

InitChain ==
    /\ layer = ChainLayer
    /\ InitRest
    /\ delta \in ChainDeltas

NextChain ==
    \/ EventUpdate
    \/ HandleSignalEvents
    \/ ApplyDeferred
    \/ \E hits \in HitInputs : ProjectileEvents(hits)
    \/ SignalTravelF32
    \/ GenerateProjectile
    \/ AcceptProjectiles
    \/ \E expired \in ExpiredInputs : DespawnProjectiles(expired)
    \/ BuildPipeNetwork

SpecChain == InitChain /\ [][NextChain]_vars

\* ------------------------------------------------- BuldgeQuery::graph alone
\* the widths of the profiles tried: hidden, half and full
Widths == {0, FullWidth \div 2, FullWidth}

\* the profiles Buldge::new can make with up to MaxSamples samples, and
\* Buldge::no_cover
Profiles ==
    {NoCover} \cup
    UNION {{BuldgeNew(f) : f \in [1 .. n -> Widths]} : n \in 0 .. MaxSamples}

\* what `query.get` of a junction can return
BuldgeOptions == {None} \cup {Some(prof) : prof \in Profiles}

\* the entities graph is called with: two whose Buldge varies and one that
\* never has one
GraphEnts == {1, 2, 3}

InitGraph ==
    /\ layer = EmptyLayer
    /\ pipes = [e \in TileEnts |-> << >>]
    /\ built = FALSE
    /\ signals = << >>
    /\ commands = << >>
    /\ eventsA = << >>
    /\ eventsB = << >>
    /\ routerRead = 0
    /\ generatorRead = 0
    /\ hitEvents = << >>
    /\ projectiles = [p \in ProjIds |-> [alive |-> FALSE, hostility |-> "Friendly",
                                          absorbed |-> FALSE]]
    /\ pc = "Update"
    /\ ran = {}
    /\ routed = << >>
    /\ travelled = [dt |-> 0, before |-> << >>]
    /\ generated = << >>
    /\ arrivals = << >>
    /\ dropped = << >>
    /\ ticks = [i \in SigIds |-> 0]
    /\ delta = 0
    /\ \E x \in BuldgeOptions : \E y \in BuldgeOptions :
          buldges = [e \in TileEnts |-> IF e = 1 THEN x ELSE IF e = 2 THEN y ELSE None]
    /\ drawn = None
    /\ atCalls = << >>

\* one call graph(from, to)
DrawGraph(from, to) ==
    /\ drawn' = Some([from |-> from, to |-> to, graph |-> GraphOf(buldges, from, to)])
    /\ UNCHANGED << layer, pipes, built, signals, commands, eventsA, eventsB,
                    routerRead, projectiles, hitEvents, generatorRead, pc, ran,
                    routed, travelled, generated, arrivals, dropped, delta, ticks,
                    buldges, atCalls >>

NextGraph == \E from \in GraphEnts : \E to \in GraphEnts : DrawGraph(from, to)

SpecGraph == InitGraph /\ [][NextGraph]_vars

\* ---------------------------------------------------- BuldgeQuery::at alone
\* For `at` an f32 position is the integer count of 2^-24 it stands for, so
\* UnitAt is `1.`; the product `pos * len_1 as f32` is rounded as an f32.  A
\* width is counted in hundredths, and the blend of two widths in hundredths
\* of 2^-24; the rounding of the blend's own two products and sum is left out.
UnitAt == 2 ^ 24

\* the outcome of a call that panics before it has read the profile
Aborted == [panic |-> TRUE, graphRead |-> FALSE, len |-> 0, reads |-> {},
            index |-> 0, part |-> 0, value |-> 0]

\* the outcome of indexing graph[i], graph[j] (0-based, as in the code):
\* a read out of bounds panics
Indexed(g, index, part, idxs, v) ==
    [panic |-> \E i \in idxs : i < 0 \/ i >= Len(g),
     graphRead |-> TRUE, len |-> Len(g),
     reads |-> {i \in idxs : 0 <= i /\ i < Len(g)},
     index |-> index, part |-> part,
     value |-> IF \E i \in idxs : i < 0 \/ i >= Len(g) THEN 0 ELSE v]

\* as At, without the two assertions
AtUnchecked(b, from, to, pos) ==
    LET graph == GraphOf(b, from, to)
    IN  IF Len(graph) > 1
        THEN LET len_1 == Len(graph) - 1
                 scaled == RoundF32(pos * len_1)
                 index == scaled \div UnitAt
                 part == scaled - index * UnitAt
             IN  Indexed(graph, index, part, {index, index + 1},
                         IF index + 1 <= len_1 /\ index >= 0
                         THEN graph[index + 1] * (UnitAt - part)
                              + graph[index + 2] * part
                         ELSE 0)
        ELSE Indexed(graph, 0, 0, {0}, IF Len(graph) = 1 THEN graph[1] * UnitAt ELSE 0)

\* as At, with the two weights of the blend exchanged
AtWeightsSwapped(b, from, to, pos) ==
    IF ~ (pos >= 0) \/ ~ (pos < UnitAt) THEN Aborted
    ELSE
    LET graph == GraphOf(b, from, to)
    IN  IF Len(graph) > 1
        THEN LET len_1 == Len(graph) - 1
                 scaled == RoundF32(pos * len_1)
                 index == scaled \div UnitAt
                 part == scaled - index * UnitAt
             IN  Indexed(graph, index, part, {index, index + 1},
                         IF index + 1 <= len_1
                         THEN graph[index + 1] * part
                              + graph[index + 2] * (UnitAt - part)
                         ELSE 0)
        ELSE Indexed(graph, 0, 0, {0}, IF Len(graph) = 1 THEN graph[1] * UnitAt ELSE 0)

\* BuldgeQuery::at
At(b, from, to, pos) ==
    IF ~ (pos >= 0) \/ ~ (pos < UnitAt) THEN Aborted
    ELSE
    LET graph == GraphOf(b, from, to)
    IN  IF Len(graph) > 1
        THEN LET len_1 == Len(graph) - 1
                 scaled == RoundF32(pos * len_1)
                 index == scaled \div UnitAt
                 part == scaled - index * UnitAt
             IN  Indexed(graph, index, part, {index, index + 1},
                         IF index + 1 <= len_1
                         THEN graph[index + 1] * (UnitAt - part)
                              + graph[index + 2] * part
                         ELSE 0)
        ELSE Indexed(graph, 0, 0, {0}, IF Len(graph) = 1 THEN graph[1] * UnitAt ELSE 0)

\* one call of at with what it returned
AtCall(b, from, to, pos) ==
    [from |-> from, to |-> to, pos |-> pos, result |-> At(b, from, to, pos)]

\* the profiles the components of the program can hold: Buldge::new is only
\* ever called with a non-empty array
ProfilesAt == Profiles \ {BuldgeNew(<< >>)}
BuldgeOptionsAt == {None} \cup {Some(prof) : prof \in ProfilesAt}

\* the f32 literal 0.999999, which is 16777199 * 2^-24
ClampMax == 16777199

\* positions inside [0, 1): the multiples of 1/PosSteps, the smallest step
\* above 0, 0.999999 and the largest f32 below 1
PosInside ==
    {k * (UnitAt \div PosSteps) : k \in 0 .. PosSteps - 1}
       \cup {1, ClampMax, UnitAt - 1}

\* positions outside [0, 1)
PosOutside == {0 - UnitAt, 0 - 1, UnitAt, UnitAt + 1, 2 * UnitAt, 12 * UnitAt}

InitAtRest ==
    /\ pipes = [e \in TileEnts |-> << >>]
    /\ built = FALSE
    /\ commands = << >>
    /\ eventsA = << >>
    /\ eventsB = << >>
    /\ routerRead = 0
    /\ generatorRead = 0
    /\ hitEvents = << >>
    /\ projectiles = [p \in ProjIds |-> [alive |-> FALSE, hostility |-> "Friendly",
                                          absorbed |-> FALSE]]
    /\ pc = "Update"
    /\ ran = {}
    /\ routed = << >>
    /\ travelled = [dt |-> 0, before |-> << >>]
    /\ generated = << >>
    /\ arrivals = << >>
    /\ dropped = << >>
    /\ ticks = [i \in SigIds |-> 0]
    /\ delta = 0
    /\ drawn = None
    /\ atCalls = << >>

InitAt ==
    /\ layer = EmptyLayer
    /\ signals = << >>
    /\ \E x \in BuldgeOptionsAt : \E y \in BuldgeOptionsAt :
          buldges = [e \in TileEnts |-> IF e = 1 THEN x ELSE IF e = 2 THEN y ELSE None]
    /\ InitAtRest

\* one call at(from, to, pos)
DrawAt(from, to, pos) ==
    /\ atCalls' = << AtCall(buldges, from, to, pos) >>
    /\ UNCHANGED << layer, pipes, built, signals, commands, eventsA, eventsB,
                    routerRead, projectiles, hitEvents, generatorRead, pc, ran,
                    routed, travelled, generated, arrivals, dropped, delta, ticks,
                    buldges, drawn >>

\* calls from one junction to another, each pair once
NextAt ==
    \E from \in GraphEnts : \E to \in {e \in GraphEnts : e > from} :
       \E pos \in PosInside \cup PosOutside : DrawAt(from, to, pos)

SpecAt == InitAt /\ [][NextAt]_vars

\* The frame loop over levels of chutes only, with up to MaxHits hit
\* events a frame: create_hit_events sends one HitEvent for every collision
\* that started, and the collider of a projectile can start touching several
\* colliders (of one entity or of neighbouring ones) in one physics step.
HitTargets == {t \in TileEnts : HasAcceptor(layer, t)} \cup {OtherEntity}

HitInputsSeveral ==
    {<< >>} \cup
    UNION {[1 .. n -> {HitEvent(p, e) : p \in {q \in ProjIds : projectiles[q].alive},
                                         e \in HitTargets}] : n \in 1 .. MaxHits}

\* The chain with a fourth chute below its middle: a junction of three edges
\* that hosts a Generator
TeeLayer ==
    [pos \in Pos |-> IF ChainLayer[pos] = "Chute" \/ pos = << 1, 1 >>
                     THEN "Chute" ELSE "Empty"]

InitHits ==
    /\ layer \in {ChainLayer, TeeLayer}
    /\ InitRest
    /\ delta = 0

NextHits ==
    \/ EventUpdate
    \/ HandleSignalEvents
    \/ ApplyDeferred
    \/ \E hits \in HitInputsSeveral : ProjectileEvents(hits)
    \/ \E dt \in 1 .. MaxDt : SignalTravel(dt)
    \/ GenerateProjectile
    \/ AcceptProjectiles
    \/ \E expired \in ExpiredInputs : DespawnProjectiles(expired)
    \/ BuildPipeNetwork

SpecHits == InitHits /\ [][NextHits]_vars

\* ------------------------------------------- update_signal_transform
\* as Clamp, passing the position on as it is
ClampNone(position) == position

\* `signal.position.min(0.999999)`: the f32 nearest to 0.999999 is
\* ClampMax * 2^-24
Clamp(position) == IF position < ClampMax THEN position ELSE ClampMax

\* Query<&GlobalTransform>::get(entity).is_ok(): the tiles of the layer
HasTransform(l, e) == e \in TileEnts /\ TilesGet(l, PosOf(e)) # None

\* the body of update_signal_transform's loop for one signal: the calls of
\* BuldgeQuery::at it makes
TransformCalls(l, b, sig) ==
    IF ~ HasTransform(l, sig.source) THEN << >>
    ELSE IF sig.destination = None THEN << >>
    ELSE IF ~ HasTransform(l, sig.destination[1]) THEN << >>
    ELSE << AtCall(b, sig.source, sig.destination[1], Clamp(sig.position)) >>

\* the loop over the signals, from the i-th on
RECURSIVE TransformCallsFrom(_, _, _, _)
TransformCallsFrom(l, b, sigs, i) ==
    IF i > MaxSignals THEN << >>
    ELSE IF i \in DOMAIN sigs
    THEN TransformCalls(l, b, sigs[i]) \o TransformCallsFrom(l, b, sigs, i + 1)
    ELSE TransformCallsFrom(l, b, sigs, i + 1)

\* Update: update_signal_transform, after signal_travel
UpdateSignalTransform ==
    /\ pc = "Update"
    /\ atCalls' = TransformCallsFrom(layer, buldges, signals, 1)
    /\ UNCHANGED << layer, pipes, built, signals, commands, eventsA, eventsB,
                    routerRead, projectiles, hitEvents, generatorRead, pc, ran,
                    routed, travelled, generated, arrivals, dropped, delta, ticks,
                    buldges, drawn >>

\* The profiles of the visual update: one or two samples, and no_cover
ProfilesVisual ==
    {NoCover} \cup
    UNION {{BuldgeNew(f) : f \in [1 .. n -> Widths]} : n \in 1 .. 2}

BuldgeOptionsVisual == {None} \cup {Some(b) : b \in ProfilesVisual}

\* The positions signal_travel and the router leave: inside [0, 1), and at or
\* past 1 (an arrival not yet routed, a skipped arrival, a long frame)
PosSignal == PosInside \cup {p \in PosOutside : p >= 0}

\* one signal from the chain's first junction, idle or on its way to the
\* second; the level loaded, or unloaded under the signal
InitVisual ==
    /\ \/ /\ layer = ChainLayer
          /\ \E x \in BuldgeOptionsVisual : \E y \in BuldgeOptionsVisual :
                buldges = [e \in TileEnts |->
                              IF e = 1 THEN x ELSE IF e = 2 THEN y ELSE None]
       \/ /\ layer = EmptyLayer
          /\ buldges = [e \in TileEnts |-> None]
    /\ \E pos \in PosSignal : \E dest \in {None, Some(2)} :
          signals = << [SignalAt("Friendly", 1) EXCEPT
                           !.destination = dest,
                           !.position = IF dest = None THEN 0 ELSE pos,
                           !.speed = IF dest = None THEN 0 ELSE Speed] >>
    /\ InitAtRest

NextVisual == UpdateSignalTransform

SpecVisual == InitVisual /\ [][NextVisual]_vars

\* ======================================================================
\* Properties
\* ======================================================================

\* ------------------------------------------------- the layer, read directly
Adjacent(a, b) ==
    \/ a[1] = b[1] /\ (a[2] = b[2] + 1 \/ b[2] = a[2] + 1)
    \/ a[2] = b[2] /\ (a[1] = b[1] + 1 \/ b[1] = a[1] + 1)

JunctionAt(pos) == layer[pos] \in {"Blue", "Red", "Chute"}

KindAt(pos) == IF layer[pos] \in {"Blue", "Red"} THEN layer[pos] ELSE "none"

KindsAgree(a, b) == KindAt(a) = KindAt(b) \/ KindAt(a) = "none" \/ KindAt(b) = "none"

Elems(list) == {list[i] : i \in 1 .. Len(list)}

EdgesAt(pos) == Elems(pipes[TileEnt(pos)])

\* C3 - Graph symmetry: once a build pass has finished, any two 4-adjacent
\* junction tiles whose kinds are equal, or one of which has no kind, list
\* each other.
C3_GraphSymmetry ==
    built =>
        \A a \in Pos, b \in Pos :
            (Adjacent(a, b) /\ JunctionAt(a) /\ JunctionAt(b) /\ KindsAgree(a, b))
                => (TileEnt(b) \in EdgesAt(a) /\ TileEnt(a) \in EdgesAt(b))

\* a built layer with a same-colour pair and a pair with an untyped junction
C3_Witness ==
    /\ built
    /\ \E a \in Pos, b \in Pos :
          Adjacent(a, b) /\ KindAt(a) = "Blue" /\ KindAt(b) = "Blue"
          /\ TileEnt(b) \in EdgesAt(a)
    /\ \E a \in Pos, b \in Pos :
          Adjacent(a, b) /\ layer[a] = "Chute" /\ KindAt(b) = "Blue"
          /\ TileEnt(b) \in EdgesAt(a) /\ TileEnt(a) \in EdgesAt(b)

\* C4 - Kind incompatibility exclusion: once a build pass has finished, two
\* adjacent tiles that both carry a kind and whose kinds differ do not list
\* each other.
C4_KindExclusion ==
    built =>
        \A a \in Pos, b \in Pos :
            (Adjacent(a, b) /\ KindAt(a) # "none" /\ KindAt(b) # "none"
                /\ KindAt(a) # KindAt(b))
                => (TileEnt(b) \notin EdgesAt(a) /\ TileEnt(a) \notin EdgesAt(b))

\* a built layer where a Blue tile touches a Red one and has another edge
C4_Witness ==
    /\ built
    /\ \E a \in Pos, b \in Pos :
          /\ Adjacent(a, b) /\ KindAt(a) = "Blue" /\ KindAt(b) = "Red"
          /\ EdgesAt(a) # {} /\ TileEnt(b) \notin EdgesAt(a)

\* C5 - Edge construction is exact: once a build pass has finished, junction
\* J lists entity E iff E is the tile at a 4-neighbour position of J inside
\* the grid, E is a junction and the kinds of J and E agree; nothing else is
\* ever listed, and a tile without a Junction lists nothing.
C5_EdgesExact ==
    built =>
        \A j \in Pos :
            /\ EdgesAt(j) \subseteq {TileEnt(b) : b \in Pos}
            /\ \A b \in Pos :
                  TileEnt(b) \in EdgesAt(j)
                      <=> (JunctionAt(j) /\ Adjacent(j, b) /\ JunctionAt(b)
                           /\ KindsAgree(j, b))

\* a built junction at the grid's border with an edge, next to an empty
\* position, to a tile without Junction and to a junction of the other colour
C5_Witness ==
    /\ built
    /\ \E j \in Pos, e \in Pos, n \in Pos, m \in Pos, o \in Pos :
          /\ Adjacent(j, e) /\ Adjacent(j, n) /\ Adjacent(j, m)
          /\ KindAt(j) = "Blue" /\ layer[e] = "Blue" /\ layer[n] = "Bare"
          /\ layer[m] = "Red"
          /\ Adjacent(e, o) /\ layer[o] = "Empty"
          /\ EdgesAt(j) = {TileEnt(e)}

\* ------------------------------------------------- the router, per event
\* routed[i] is the i-th event the router read in its last run, with the
\* world and the command queue before (pre) and after (post) its turn.
JunctionEnt(e) == \E pos \in Pos : TileEnt(pos) = e /\ JunctionAt(pos)

\* the event's signal has a Signal component and its receiver a Junction
Routable(r) == r.ev.signal \in DOMAIN r.pre.signals /\ JunctionEnt(r.ev.receiver)

\* the places of the receiver's edge list that do not point to the sender
KeptIdx(r) ==
    {i \in 1 .. Len(pipes[r.ev.receiver]) : pipes[r.ev.receiver][i] # r.ev.sender}

\* the k-th edge of the receiver, in list order, not pointing to the sender
NthKept(r, k) ==
    pipes[r.ev.receiver][CHOOSE i \in KeptIdx(r) :
                            Cardinality({j \in KeptIdx(r) : j <= i}) = k]

FanOut(r) == Cardinality(KeptIdx(r))

\* the commands the event's turn queued
NewCommands(r) == SubSeq(r.post.commands, Len(r.pre.commands) + 1, Len(r.post.commands))

SpawnedIds(r) == {NewCommands(r)[k].id : k \in 1 .. Len(NewCommands(r))}

\* the commands of the PreUpdate schedule have been applied and no system of
\* Update has run yet
RoutingApplied == pc = "Update" /\ ran = {}

\* C1 - Fan-out conservation and atomicity: an event handled at a junction
\* with N >= 1 edges not pointing to its sender yields N signals: the
\* arriving entity and N-1 spawned ones, one per remaining edge, each with
\* source = the receiver, the arriving payload and position = the overfill;
\* in no state do only some of the N-1 new signals exist.
C1_FanOutConservation ==
    \A i \in 1 .. Len(routed) :
        LET r == routed[i]
            N == FanOut(r)
            new == NewCommands(r)
            arriving == r.pre.signals[r.ev.signal]
        IN  (Routable(r) /\ N >= 1) =>
            /\ SubSeq(r.post.commands, 1, Len(r.pre.commands)) = r.pre.commands
            /\ Len(new) = N - 1
            /\ Cardinality(SpawnedIds(r)) = N - 1
            /\ SpawnedIds(r) \cap DOMAIN r.pre.signals = {}
            /\ DOMAIN r.post.signals = DOMAIN r.pre.signals
            /\ r.post.signals[r.ev.signal].source = r.ev.receiver
            /\ r.post.signals[r.ev.signal].data = arriving.data
            /\ r.post.signals[r.ev.signal].position = r.ev.overfill
            /\ \A k \in 1 .. N - 1 :
                  /\ new[k].op = "spawn"
                  /\ new[k].signal.source = r.ev.receiver
                  /\ new[k].signal.data = arriving.data
                  /\ new[k].signal.position = r.ev.overfill
                  /\ new[k].signal.destination = << NthKept(r, k + 1) >>
            /\ (SpawnedIds(r) \subseteq DOMAIN signals
                \/ SpawnedIds(r) \cap DOMAIN signals = {})
            /\ RoutingApplied =>
                  /\ Cardinality(SpawnedIds(r) \cup {r.ev.signal}) = N
                  /\ SpawnedIds(r) \cup {r.ev.signal} \subseteq DOMAIN signals
                  /\ signals[r.ev.signal] = r.post.signals[r.ev.signal]
                  /\ \A k \in 1 .. N - 1 : signals[new[k].id] = new[k].signal

\* a Hostile signal arrived from another junction with some overfill, was
\* routed onto two edges and the commands are applied
C1_Witness ==
    /\ RoutingApplied
    /\ \E i \in 1 .. Len(routed) :
          /\ Routable(routed[i]) /\ FanOut(routed[i]) >= 2
          /\ routed[i].ev.sender # routed[i].ev.receiver
          /\ routed[i].ev.overfill > 0
          /\ routed[i].pre.signals[routed[i].ev.signal].data = "Hostile"
          /\ SpawnedIds(routed[i]) \subseteq DOMAIN signals

\* C2 - Dead-end termination: an event handled at a junction whose edges all
\* point to its sender (or that has no edge) despawns the arriving signal,
\* creates no signal and changes no signal.
C2_DeadEndTermination ==
    \A i \in 1 .. Len(routed) :
        LET r == routed[i]
        IN  (Routable(r) /\ FanOut(r) = 0) =>
            /\ r.post.signals = r.pre.signals
            /\ r.post.commands = Append(r.pre.commands,
                                        [op |-> "despawn", id |-> r.ev.signal])
            /\ RoutingApplied => r.ev.signal \notin DOMAIN signals

\* a travelling signal reached the end of a pipe whose only edge leads back,
\* while another signal lives on
C2_Witness ==
    /\ RoutingApplied
    /\ signals # << >>
    /\ \E i \in 1 .. Len(routed) :
          /\ Routable(routed[i]) /\ FanOut(routed[i]) = 0
          /\ routed[i].ev.sender # routed[i].ev.receiver
          /\ pipes[routed[i].ev.receiver] = << routed[i].ev.sender >>

\* the receiver's first compatible junction neighbour other than the sender,
\* looking right, up, left, down on the layer
FirstByDirection(receiver, sender) ==
    LET at == CHOOSE pos \in Pos : TileEnt(pos) = receiver
        ok(c) == c \in Pos /\ JunctionAt(c) /\ KindsAgree(at, c) /\ TileEnt(c) # sender
        right == << at[1] + 1, at[2] >>
        up == << at[1], at[2] + 1 >>
        left == << at[1] - 1, at[2] >>
        down == << at[1], at[2] - 1 >>
    IN  IF ok(right) THEN TileEnt(right)
        ELSE IF ok(up) THEN TileEnt(up)
        ELSE IF ok(left) THEN TileEnt(left)
        ELSE TileEnt(down)

\* C6 - Forwarding keeps identity and uses insertion order: when an edge
\* other than the sender's remains, the arriving entity itself gets source =
\* the receiver, destination = the first remaining edge in the order right,
\* up, left, down, speed 12 and position = the overfill; its payload stays.
C6_ForwardInPlace ==
    \A i \in 1 .. Len(routed) :
        LET r == routed[i]
            arriving == r.pre.signals[r.ev.signal]
            forwarded == [data |-> arriving.data,
                          source |-> r.ev.receiver,
                          destination |-> << FirstByDirection(r.ev.receiver, r.ev.sender) >>,
                          position |-> r.ev.overfill,
                          speed |-> 12]
        IN  (Routable(r) /\ FanOut(r) >= 1) =>
            /\ r.ev.signal \in DOMAIN r.post.signals
            /\ r.post.signals[r.ev.signal] = forwarded
            /\ RoutingApplied => (r.ev.signal \in DOMAIN signals
                                  /\ signals[r.ev.signal] = forwarded)

\* a travelling signal was forwarded at a junction that had a choice, and
\* its first remaining edge is not the first of its list
C6_Witness ==
    /\ RoutingApplied
    /\ \E i \in 1 .. Len(routed) :
          /\ Routable(routed[i]) /\ FanOut(routed[i]) >= 2
          /\ routed[i].pre.signals[routed[i].ev.signal].destination
                = << routed[i].ev.receiver >>
          /\ pipes[routed[i].ev.receiver][1] = routed[i].ev.sender
          /\ signals[routed[i].ev.signal].source = routed[i].ev.receiver

\* C7 - Back-edge exclusion: after an event with sender S is handled neither
\* the reused signal nor a spawned one has destination S, and in every state
\* every travelling signal's destination differs from its source.
C7_BackEdgeExclusion ==
    /\ \A i \in 1 .. Len(routed) :
          LET r == routed[i]
              new == NewCommands(r)
          IN  Routable(r) =>
              /\ FanOut(r) >= 1 =>
                    r.post.signals[r.ev.signal].destination # << r.ev.sender >>
              /\ \A k \in 1 .. Len(new) :
                    new[k].op = "spawn" => new[k].signal.destination # << r.ev.sender >>
              /\ RoutingApplied =>
                    \A id \in (SpawnedIds(r) \cup {r.ev.signal}) \cap DOMAIN signals :
                        signals[id].destination # << r.ev.sender >>
    /\ \A id \in DOMAIN signals : signals[id].destination # << signals[id].source >>
    /\ \A k \in 1 .. Len(commands) :
          commands[k].op = "spawn"
              => commands[k].signal.destination # << commands[k].signal.source >>

\* a signal was forwarded at a junction that lists the junction it came from
C7_Witness ==
    /\ RoutingApplied
    /\ \E i \in 1 .. Len(routed) :
          /\ Routable(routed[i]) /\ FanOut(routed[i]) >= 1
          /\ routed[i].ev.sender # routed[i].ev.receiver
          /\ routed[i].ev.sender \in Elems(pipes[routed[i].ev.receiver])
          /\ routed[i].ev.signal \in DOMAIN signals

\* ------------------------------------------------------- the integrator
Travelled == "signal_travel" \in ran

\* the events of this frame that name signal id
SentFor(id) == {k \in 1 .. Len(eventsB) : eventsB[k].signal = id}

\* C8 - Integrator step: a tick adds speed * dt to the position of every
\* signal with a destination and, when the new position is >= 1, sends one
\* event (sender = source, receiver = destination, that signal, overfill =
\* new position - 1, however large); a signal without destination is left
\* as it is and gets no event.
C8_IntegratorStep ==
    Travelled =>
        /\ DOMAIN signals = DOMAIN travelled.before
        /\ \A id \in DOMAIN signals :
              LET b == travelled.before[id]
                  a == signals[id]
              IN  IF b.destination # << >>
                  THEN /\ a = [b EXCEPT !.position = b.position + b.speed * travelled.dt]
                       /\ a.position < One => SentFor(id) = {}
                       /\ a.position >= One =>
                             /\ Cardinality(SentFor(id)) = 1
                             /\ \A k \in SentFor(id) :
                                   /\ eventsB[k].sender = b.source
                                   /\ << eventsB[k].receiver >> = b.destination
                                   /\ eventsB[k].overfill = a.position - One
                  ELSE a = b /\ SentFor(id) = {}

\* a tick moved a signal that started part of the way along its pipe exactly
\* to the end, and sent its event
C8_Witness ==
    /\ Travelled
    /\ \E id \in DOMAIN signals :
          /\ signals[id].destination # << >>
          /\ travelled.before[id].position > 0
          /\ signals[id].position = One
          /\ Cardinality(SentFor(id)) = 1

\* a tick found a signal without destination
C8_IdleSignalTicked ==
    /\ Travelled
    /\ \E id \in DOMAIN signals : signals[id].destination = << >>

\* a tick carried a signal a whole edge past the end of its pipe
C8_OverfillOfOne ==
    /\ Travelled
    /\ \E k \in 1 .. Len(eventsB) : eventsB[k].overfill >= One

SameCrossing(e, f) ==
    e.signal = f.signal /\ e.sender = f.sender /\ e.receiver = f.receiver

\* C9 - One arrival per crossing: when a tick begins, every signal the last
\* tick reported at a junction is gone or re-routed (its source is that
\* junction), and the tick sends at most one event per signal and none for
\* a crossing (signal, sender, receiver) the last tick reported at a junction.
C9_OneArrivalPerCrossing ==
    [][("signal_travel" \notin ran /\ "signal_travel" \in ran') =>
          /\ \A k \in 1 .. Len(arrivals) :
                JunctionEnt(arrivals[k].receiver) =>
                    /\ (arrivals[k].signal \notin DOMAIN signals
                        \/ signals[arrivals[k].signal].source = arrivals[k].receiver)
                    /\ \A m \in 1 .. Len(arrivals') :
                          ~ SameCrossing(arrivals[k], arrivals'[m])
          /\ \A m \in 1 .. Len(arrivals'), n \in 1 .. Len(arrivals') :
                arrivals'[m].signal = arrivals'[n].signal => m = n]_vars

\* a signal crossed the end of a pipe in two ticks running: the event of the
\* first tick has been routed, the second tick has reported the next junction
C9_Witness ==
    /\ Travelled
    /\ \E k \in 1 .. Len(eventsA), m \in 1 .. Len(arrivals) :
          /\ eventsA[k].sender # eventsA[k].receiver
          /\ JunctionEnt(eventsA[k].receiver)
          /\ arrivals[m].signal = eventsA[k].signal
          /\ arrivals[m].sender = eventsA[k].receiver

\* C10 - Arrival events are consumed exactly once: an event written in a
\* frame is not read in that frame, is read once by the router in the
\* PreUpdate of the next frame (before signal_travel runs) and is discarded
\* only after that; the router's run handles exactly the events written in
\* the frame before, in order.
C10_EventsConsumedOnce ==
    /\ \A k \in 1 .. Len(eventsB) : eventsB[k].age = 0 /\ eventsB[k].reads = 0
    /\ \A k \in 1 .. Len(eventsA) :
          /\ eventsA[k].age = 1
          /\ eventsA[k].reads = IF pc = "PreUpdate" THEN 0 ELSE 1
    /\ \A k \in 1 .. Len(dropped) : dropped[k].age = 1 /\ dropped[k].reads = 1
    /\ pc # "PreUpdate" =>
          /\ Len(routed) = Len(eventsA)
          /\ \A k \in 1 .. Len(routed) :
                routed[k].ev = [sender |-> eventsA[k].sender,
                                receiver |-> eventsA[k].receiver,
                                signal |-> eventsA[k].signal,
                                overfill |-> eventsA[k].overfill]

\* the acceptor's event has been read once and discarded; the two events
\* signal_travel wrote in the frame before have been read and the next tick
\* has not run
C10_Witness ==
    /\ pc = "Update" /\ ran = {}
    /\ Len(dropped) = 1 /\ dropped[1].sender = dropped[1].receiver
    /\ dropped[1].reads = 1
    /\ Len(eventsA) = 2 /\ eventsA[1].sender # eventsA[1].receiver
    /\ eventsA[1].reads = 1 /\ eventsA[2].reads = 1

\* ------------------------------------------------------ skipped events
\* the router has run in this frame: routed is its log and the layer is the
\* one it read
RouterRan == pc \notin {"First", "PreUpdate"}

\* the router's turn for the event ended at one of its two `continue`s
Skipped(r) == ~ Routable(r)

\* C11 - Skipped events leave state unchanged and are not retried: an event
\* whose signal has no Signal component or whose receiver has no Junction
\* changes no signal and queues no command, and the integrator sends no
\* further event for that signal and receiver.
C11_SkippedNotRetried ==
    /\ RouterRan =>
          \A i \in 1 .. Len(routed) :
              Skipped(routed[i]) => routed[i].post = routed[i].pre
    /\ Travelled =>
          \A i \in 1 .. Len(routed), k \in 1 .. Len(arrivals) :
              Skipped(routed[i]) =>
                  ~ (arrivals[k].signal = routed[i].ev.signal
                     /\ arrivals[k].receiver = routed[i].ev.receiver)

\* ------------------------------------------------- rebuild before route
\* every junction of the layer lists exactly its compatible junction
\* neighbours, each once: the state a whole build pass leaves
WholePassDone ==
    /\ built
    /\ \A j \in Pos :
          /\ Len(pipes[TileEnt(j)]) = Cardinality(EdgesAt(j))
          /\ \A b \in Pos :
                TileEnt(b) \in EdgesAt(j)
                    <=> (JunctionAt(j) /\ Adjacent(j, b) /\ JunctionAt(b)
                         /\ KindsAgree(j, b))

\* C12 - Rebuild-before-route ordering: whenever the router has read a
\* junction's edge list, every junction of the layer is in the state a whole
\* build pass leaves: none is cleared and not refilled, none is left out.
C12_RebuildBeforeRoute ==
    (RouterRan /\ \E i \in 1 .. Len(routed) : Routable(routed[i])) => WholePassDone

\* the router has read the list of a junction with two edges on a layer of
\* three junctions or more
C12_Witness ==
    /\ RouterRan
    /\ Cardinality({pos \in Pos : JunctionAt(pos)}) >= 3
    /\ \E i \in 1 .. Len(routed) :
          /\ Routable(routed[i])
          /\ Len(pipes[routed[i].ev.receiver]) >= 2
          /\ routed[i].ev.sender # routed[i].ev.receiver

\* ------------------------------------------------------------ the acceptor
\* accept_projectiles has run in this frame and its commands are still queued
Accepted == pc \in {"Update", "UpdateFlush"} /\ "accept_projectiles" \in ran

\* the hit events of this frame whose projectile exists and whose other
\* entity is a chute (the tiles with an Acceptor)
MatchingHits ==
    {k \in 1 .. Len(hitEvents) :
        /\ projectiles[hitEvents[k].projectile].alive
        /\ \E pos \in Pos : TileEnt(pos) = hitEvents[k].entity /\ layer[pos] = "Chute"}

SpawnCommands == {k \in 1 .. Len(commands) : commands[k].op = "spawn"}

SelfArrivals == {k \in 1 .. Len(eventsB) : eventsB[k].sender = eventsB[k].receiver}

C13_OtherHit ==
    /\ Accepted
    /\ hitEvents # << >> /\ MatchingHits = {}

\* ----------------------------------------------------------- the generator
\* generate_projectile has run in this frame and its commands are still queued
Generated == pc \in {"Update", "UpdateFlush"} /\ "generate_projectile" \in ran

\* an event that makes a projectile: it came from another junction, its
\* receiver is a chute (the tiles with a Generator) and its signal lives
MakesProjectile(ev) ==
    /\ ev.sender # ev.receiver
    /\ \E pos \in Pos : TileEnt(pos) = ev.receiver /\ layer[pos] = "Chute"
    /\ ev.signal \in DOMAIN signals

IsCreate(c) == c.op = "create_projectile"

\* C14 - Generator output: generate_projectile queues, for the events it
\* reads and in their order, one projectile creation with the signal's
\* hostility per event with sender # receiver whose receiver has a Generator
\* and whose signal has a Signal component, and nothing for any other event;
\* it reads the events of this frame's integrator tick.
C14_GeneratorOutput ==
    Generated =>
        LET creates == SelectSeq(commands, IsCreate)
            making == SelectSeq(generated, MakesProjectile)
        IN  /\ Len(creates) = Len(making)
            /\ \A i \in 1 .. Len(making) :
                  creates[i].hostility = signals[making[i].signal].data
            /\ \A k \in 1 .. Len(arrivals) :
                  \E i \in 1 .. Len(generated) : generated[i] = arrivals[k]

\* a Hostile signal came round to the chute from another junction and the
\* generator answered
C14_Witness ==
    /\ Generated
    /\ \E i \in 1 .. Len(generated) :
          MakesProjectile(generated[i]) /\ signals[generated[i].signal].data = "Hostile"
    /\ \E c \in 1 .. Len(commands) : commands[c] = [op |-> "create_projectile",
                                                   hostility |-> "Hostile"]

\* the generator read an acceptor's self-arrival whose signal lives
C14_SelfArrivalRead ==
    /\ Generated
    /\ \E i \in 1 .. Len(generated) :
          /\ generated[i].sender = generated[i].receiver
          /\ generated[i].signal \in DOMAIN signals

\* the generator read an arrival at a junction without Generator
C14_NoGeneratorRead ==
    /\ Generated
    /\ \E i \in 1 .. Len(generated) :
          /\ generated[i].sender # generated[i].receiver
          /\ ~ MakesProjectile(generated[i])

\* ------------------------------------------------------- position bound
\* C15 - Position bound: with speed * dt < 1 in every tick, a signal's
\* position is never negative, is in [0, 1) right after the router has
\* handled its arrival and is below 1 + speed * dt right after a tick.
C15_PositionBound ==
    /\ \A id \in DOMAIN signals : signals[id].position >= 0
    /\ RouterRan =>
          \A i \in 1 .. Len(routed) :
              (Routable(routed[i]) /\ FanOut(routed[i]) >= 1) =>
                  /\ routed[i].post.signals[routed[i].ev.signal].position >= 0
                  /\ routed[i].post.signals[routed[i].ev.signal].position < One
    /\ Travelled =>
          \A id \in DOMAIN signals :
              signals[id].destination # << >> =>
                  signals[id].position < One + Speed * travelled.dt

\* --------------------------------------------------- speed and destination
SpeedFitsDestination(sig) ==
    /\ sig.speed = 0 <=> sig.destination = << >>
    /\ sig.destination # << >> => sig.speed = 12

\* C16 - Speed/destination invariant: a signal has speed 0 exactly when it
\* has no destination, and every signal with a destination, re-routed in
\* place or spawned by fan-out, has speed 12; so have the signals of the
\* queued spawn commands.
C16_SpeedDestination ==
    /\ \A id \in DOMAIN signals : SpeedFitsDestination(signals[id])
    /\ \A k \in 1 .. Len(commands) :
          commands[k].op = "spawn" => SpeedFitsDestination(commands[k].signal)

\* a signal re-routed in place and one spawned by fan-out are under way
C16_Witness ==
    /\ Travelled
    /\ \E id \in DOMAIN signals, other \in DOMAIN signals :
          /\ id # other
          /\ signals[id].destination # << >> /\ signals[other].destination # << >>
          /\ signals[id].source = signals[other].source
          /\ signals[id].position > 0

\* a signal fresh from the acceptor, without destination, is in the world
C16_FreshSignal ==
    \E id \in DOMAIN signals :
        signals[id].destination = << >> /\ signals[id].speed = 0

\* ---------------------------------------------------- the chain scenario
\* a signal on the first edge of the chain: from an end towards the middle
FirstEdge(sig) == sig.source \in ChainEnds /\ sig.destination = Some(ChainMiddle)

OtherEnd(e) == CHOOSE o \in ChainEnds : o # e

\* The run of one signal over the chain, with the overfills the arrival at
\* the middle may carry:
\*   - a signal on the first edge has made at most 10 ticks and is at
\*     position >= 1 exactly when it has made 10;
\*   - the tenth tick, and no tick before, sends one event for it, from its
\*     end to the middle, with overfill position - 1;
\*   - the router moves the same entity on to the other end with the
\*     overfill as its position, and spawns and despawns nothing;
\*   - the event of its arrival at the other end despawns it.
ChainRun(overfills) ==
    /\ \A id \in DOMAIN signals :
          FirstEdge(signals[id]) =>
             /\ ticks[id] <= 10
             /\ (signals[id].position >= OneF32) <=> (ticks[id] = 10)
             /\ Travelled /\ ticks[id] < 10 => SentFor(id) = {}
             /\ Travelled /\ ticks[id] = 10 =>
                   /\ Cardinality(SentFor(id)) = 1
                   /\ \A k \in SentFor(id) :
                         /\ eventsB[k].sender = signals[id].source
                         /\ eventsB[k].receiver = ChainMiddle
                         /\ eventsB[k].overfill = signals[id].position - OneF32
                         /\ eventsB[k].overfill \in overfills
    /\ \A k \in 1 .. Len(routed) :
          LET r == routed[k]
              id == r.ev.signal
          IN  /\ r.ev.sender \in ChainEnds /\ r.ev.receiver = ChainMiddle =>
                    /\ id \in DOMAIN r.pre.signals
                    /\ DOMAIN r.post.signals = DOMAIN r.pre.signals
                    /\ r.post.commands = r.pre.commands
                    /\ r.post.signals[id].source = ChainMiddle
                    /\ r.post.signals[id].destination = Some(OtherEnd(r.ev.sender))
                    /\ r.post.signals[id].position = r.ev.overfill
                    /\ r.post.signals[id].position \in overfills
              /\ r.ev.sender = ChainMiddle /\ r.ev.receiver \in ChainEnds =>
                    /\ id \in DOMAIN r.pre.signals
                    /\ r.post.signals = r.pre.signals
                    /\ r.post.commands = Append(r.pre.commands, DespawnSignal(id))
                    /\ RoutingApplied => id \notin DOMAIN signals

\* C17 (as stated): Chain scenario: on the chain A-B-C a signal that starts at
\* position 0 on A->B with speed*dt = 1/10 reaches position >= 1 after exactly
\* 10 integrator ticks, one arrival event (sender A, receiver B, overfill 0)
\* is sent, the router forwards the same entity to source B, destination C,
\* position 0 without creating or destroying a signal, and its arrival at C
\* despawns it.
C17_ChainScenario == ChainRun({0})

\* C17 (amended): Chain scenario as above, but the overfill of the arrival at
\* B, and with it the position the router forwards the signal with, is the
\* rounding residue position - 1 of the ten f32 additions: 0 or 2^-23 (one
\* f32 step above 1.0), depending on the frame time.
C17_ChainScenarioRounded == ChainRun({0, Ulp(OneF32)})

\* the router has forwarded a signal at the middle with the residue 2^-23
C17_Witness ==
    /\ RoutingApplied
    /\ \E k \in 1 .. Len(routed) :
          /\ routed[k].ev.sender \in ChainEnds
          /\ routed[k].ev.receiver = ChainMiddle
          /\ routed[k].ev.overfill = Ulp(OneF32)
          /\ signals[routed[k].ev.signal].position = Ulp(OneF32)
          /\ ticks[routed[k].ev.signal] = 10

\* the same with the exact arrival at position 1.0
C17_ExactArrival ==
    /\ RoutingApplied
    /\ \E k \in 1 .. Len(routed) :
          /\ routed[k].ev.sender \in ChainEnds
          /\ routed[k].ev.receiver = ChainMiddle
          /\ routed[k].ev.overfill = 0
          /\ ticks[routed[k].ev.signal] = 10

\* a signal that crossed the whole chain has been despawned at the far end
C17_DespawnedAtEnd ==
    /\ RoutingApplied
    /\ \E k \in 1 .. Len(routed) :
          /\ routed[k].ev.sender = ChainMiddle
          /\ routed[k].ev.receiver \in ChainEnds
          /\ ticks[routed[k].ev.signal] = 0
          /\ routed[k].ev.signal \notin DOMAIN signals
          /\ routed[k].pre.signals[routed[k].ev.signal].source = ChainMiddle
          /\ routed[k].pre.signals[routed[k].ev.signal].position >= OneF32

\* ------------------------------------------------------------------ rings
\* the junctions of the layer
Ring == {pos \in Pos : JunctionAt(pos)}

\* the layer is a ring: three or more junctions, each with exactly two
\* edges, to two different junctions
RingLayer ==
    /\ Cardinality(Ring) >= 3
    /\ \A pos \in Ring : /\ Len(pipes[TileEnt(pos)]) = 2
                         /\ pipes[TileEnt(pos)][1] # pipes[TileEnt(pos)][2]

SetMax(S) == CHOOSE m \in S : \A n \in S : n <= m

\* twice the centre of the ring's bounding box
Centre2 ==
    LET xs == {pos[1] : pos \in Ring}
        ys == {pos[2] : pos \in Ring}
    IN  << SetMin(xs) + SetMax(xs), SetMin(ys) + SetMax(ys) >>

\* the step from junction a to junction b runs counter-clockwise around the
\* centre (the cross product of the two radii is positive)
CounterClockwise(a, b) ==
    LET va == << 2 * PosOf(a)[1] - Centre2[1], 2 * PosOf(a)[2] - Centre2[2] >>
        vb == << 2 * PosOf(b)[1] - Centre2[1], 2 * PosOf(b)[2] - Centre2[2] >>
    IN  va[1] * vb[2] - va[2] * vb[1] > 0

\* C18: Cycles loop forever: on a ring of three or more junctions, each with
\* exactly two edges, the arrival of a travelling signal at a junction never
\* despawns it and never duplicates it: the router queues no command, the set
\* of signals stays the same, and the signal goes on to the junction after the
\* receiver in the rotational direction it arrived in, never back.
C18_CyclesLoop ==
    RouterRan /\ RingLayer =>
       /\ \A k \in 1 .. Len(commands) : commands[k].op # "despawn"
       /\ \A k \in 1 .. Len(routed) :
             LET r == routed[k]
                 id == r.ev.signal
             IN  r.ev.sender # r.ev.receiver =>
                    /\ id \in DOMAIN r.pre.signals
                    /\ r.post.commands = r.pre.commands
                    /\ DOMAIN r.post.signals = DOMAIN r.pre.signals
                    /\ \A o \in DOMAIN r.pre.signals \ {id} :
                          r.post.signals[o] = r.pre.signals[o]
                    /\ r.post.signals[id].source = r.ev.receiver
                    /\ r.post.signals[id].destination # None
                    /\ r.post.signals[id].destination # Some(r.ev.sender)
                    /\ CounterClockwise(r.ev.receiver, r.post.signals[id].destination[1])
                          <=> CounterClockwise(r.ev.sender, r.ev.receiver)

\* both signals of a ring have been routed at the chute they started from,
\* each after a whole lap, and go on in opposite directions
C18_Witness ==
    /\ RoutingApplied
    /\ RingLayer
    /\ Len(routed) = 2
    /\ \A k \in 1 .. 2 :
          /\ routed[k].ev.sender # routed[k].ev.receiver
          /\ layer[PosOf(routed[k].ev.receiver)] = "Chute"
          /\ routed[k].ev.signal \in DOMAIN signals
    /\ Cardinality(DOMAIN signals) = 2
    /\ CounterClockwise(routed[1].ev.sender, routed[1].ev.receiver)
          # CounterClockwise(routed[2].ev.sender, routed[2].ev.receiver)

\* ---------------------------------------------------------------- writers
\* the steps of the systems that write junctions and signals
RouterStep == pc = "PreUpdate" /\ pc' = "PreUpdateFlush"
TravelStep == pc = "Update" /\ "signal_travel" \notin ran /\ "signal_travel" \in ran'
BuildStep == pc = "PostUpdate" /\ pc' = "First"
\* the level's tiles are despawned
UnloadStep == layer # EmptyLayer /\ layer' = EmptyLayer

\* a field of a signal that lives on has changed
FieldsWritten ==
    \E id \in DOMAIN signals \cap DOMAIN signals' : signals'[id] # signals[id]

\* this frame's router pass has written the signal in its k-th turn
RouterWrote(id, k) ==
    /\ id \in DOMAIN routed[k].pre.signals \cap DOMAIN routed[k].post.signals
    /\ routed[k].post.signals[id] # routed[k].pre.signals[id]

WrittenByRouter(id) == \E k \in 1 .. Len(routed) : RouterWrote(id, k)

\* this frame's integrator tick has written the signal
WrittenByIntegrator(id) ==
    /\ Travelled
    /\ id \in DOMAIN travelled.before
    /\ travelled.before[id].destination # None

\* junction lists change in build_pipe_network's step only (or go with the
\* despawned level), signal fields in the router's or the integrator's
JunctionWriter == pipes' # pipes => BuildStep \/ UnloadStep
SignalWriters == FieldsWritten => RouterStep \/ TravelStep

C20_OnlyFrom ==
    /\ drawn # None
    /\ buldges[drawn[1].from] # None /\ buldges[drawn[1].to] = None
    /\ Len(drawn[1].graph) >= 2
C20_OnlyTo ==
    /\ drawn # None
    /\ buldges[drawn[1].from] = None /\ buldges[drawn[1].to] # None
    /\ drawn[1].graph # buldges[drawn[1].to][1].outgoing
C20_Neither ==
    /\ drawn # None
    /\ buldges[drawn[1].from] = None /\ buldges[drawn[1].to] = None
\* the profile of two chutes next to each other
C20_NoCoverPair ==
    /\ drawn # None
    /\ drawn[1].from # drawn[1].to
    /\ buldges[drawn[1].from] = Some(NoCover)
    /\ buldges[drawn[1].to] = Some(NoCover)
    /\ drawn[1].graph = << 0, 0, 0, 15, 15, 0, 0, 0 >>

\* ------------------------------------------------------ bulge interpolation
\* C21: Bulge interpolation: for every pos in [0, 1) and merged profile g of
\* length L, at(from, to, pos) returns g[0] when L = 1, and otherwise
\* g[i]*(1-w) + g[i+1]*w with i = floor(pos*(L-1)) and w = pos*(L-1) - i,
\* where i+1 <= L-1 always holds (no out-of-bounds read); at(from, to, 0)
\* returns g[0].
C21_Interpolation ==
    \A c \in 1 .. Len(atCalls) :
       LET call == atCalls[c]
           res == call.result
           g == GraphOf(buldges, call.from, call.to)
           L == Len(g)
       IN  0 <= call.pos /\ call.pos < UnitAt =>
              /\ ~ res.panic
              /\ res.graphRead
              /\ L = 1 => res.value = g[1] * UnitAt /\ res.reads = {0}
              /\ L > 1 =>
                    LET i == res.index
                        w == res.part
                        x == RoundF32(call.pos * (L - 1))
                    IN  /\ 0 <= i /\ i + 1 <= L - 1
                        /\ i * UnitAt <= x /\ x < (i + 1) * UnitAt
                        /\ w = x - i * UnitAt
                        /\ res.reads = {i, i + 1}
                        /\ res.value = g[i + 1] * UnitAt + (g[i + 2] - g[i + 1]) * w
              /\ call.pos = 0 => res.value = g[1] * UnitAt

\* a blend strictly between two different samples, by a weight that is not 0
C21_Witness ==
    \E c \in 1 .. Len(atCalls) :
       LET res == atCalls[c].result
           g == GraphOf(buldges, atCalls[c].from, atCalls[c].to)
       IN  /\ ~ res.panic
           /\ Len(g) > 2
           /\ res.index >= 1
           /\ res.part > 0
           /\ g[res.index + 1] < g[res.index + 2]
           /\ g[res.index + 1] * UnitAt < res.value
           /\ res.value < g[res.index + 2] * UnitAt

\* the largest f32 below 1 reads the last two samples of no_cover's merge
C21_LastSegment ==
    \E c \in 1 .. Len(atCalls) :
       /\ atCalls[c].pos = UnitAt - 1
       /\ atCalls[c].result.len = 8
       /\ atCalls[c].result.reads = {6, 7}
       /\ ~ atCalls[c].result.panic

\* a one-element profile at a position other than 0
C21_SingleSample ==
    \E c \in 1 .. Len(atCalls) :
       /\ atCalls[c].pos > 0
       /\ atCalls[c].pos < UnitAt
       /\ atCalls[c].result.len = 1
       /\ ~ atCalls[c].result.panic

\* C22: Bulge precondition is fatal: a call at(from, to, pos) with pos < 0 or
\* pos >= 1 (exactly 1.0 included) fails its assertion and aborts; it returns
\* no value and never reads the profile array.
C22_PreconditionFatal ==
    \A c \in 1 .. Len(atCalls) :
       atCalls[c].pos < 0 \/ atCalls[c].pos >= UnitAt =>
          /\ atCalls[c].result.panic
          /\ ~ atCalls[c].result.graphRead
          /\ atCalls[c].result.reads = {}
          /\ atCalls[c].result = Aborted

\* a call with exactly 1.0 on a merged profile of several samples has aborted
C22_Witness ==
    \E c \in 1 .. Len(atCalls) :
       /\ atCalls[c].pos = UnitAt
       /\ atCalls[c].result.panic
       /\ Len(GraphOf(buldges, atCalls[c].from, atCalls[c].to)) > 1

\* the same with a negative position
C22_Negative ==
    \E c \in 1 .. Len(atCalls) :
       /\ atCalls[c].pos < 0
       /\ atCalls[c].result.panic

\* no junction list is filled yet
NoPipes == [e \in TileEnts |-> << >>]

\* the passes of build_pipe_network a behaviour has made are at least two:
\* the router has matched a signal to an edge, which takes a pass to build
\* the edge, and a whole frame has ended since, with its own pass
SecondPassDone ==
    /\ built
    /\ pc = "First"
    /\ \E id \in DOMAIN signals : signals[id].destination # None

\* C23 - Rebuild is idempotent: when a frame has ended, after any number of
\* passes of build_pipe_network over a layer, the edge lists are those a single pass
\* from empty lists leaves, one more pass leaves them as they are, and every
\* list names each compatible neighbouring junction once, never the junction
\* itself, and has at most 4 entries.
C23_RebuildIdempotent ==
    (built /\ pc = "First") =>
        /\ pipes = BuildPipeNetworkResult(layer, NoPipes)
        /\ BuildPipeNetworkResult(layer, pipes) = pipes
        /\ \A j \in Pos :
              /\ Len(pipes[TileEnt(j)]) = Cardinality(EdgesAt(j))
              /\ Len(pipes[TileEnt(j)]) <= 4
              /\ TileEnt(j) \notin EdgesAt(j)
              /\ \A b \in Pos :
                    TileEnt(b) \in EdgesAt(j)
                        <=> (JunctionAt(j) /\ Adjacent(j, b) /\ JunctionAt(b)
                             /\ KindsAgree(j, b))

\* a second pass has run over a layer where some junction has two edges
C23_Witness ==
    /\ SecondPassDone
    /\ \E j \in Pos : Len(pipes[TileEnt(j)]) >= 2

\* the calls of at() the visual update has made pass both assertions and read
\* inside the merged profile
CallsSafe ==
    \A k \in 1 .. Len(atCalls) :
        LET c == atCalls[k]
        IN  /\ c.pos >= 0
            /\ c.pos < UnitAt
            /\ ~ c.result.panic
            /\ c.result.graphRead
            /\ c.result.reads \subseteq 0 .. c.result.len - 1
            /\ c.result.len > 1 => c.result.index + 1 <= c.result.len - 1

\* C24 - The bulge assertion is unreachable from the visual update: for a
\* signal at any position >= 0, positions at and past 1 included,
\* update_signal_transform calls at() with min(position, 0.999999), which is
\* in [0, 1): no assertion fails and index + 1 stays inside the merged profile.
C24_ClampedCallsSafe ==
    /\ CallsSafe
    /\ \A k \in 1 .. Len(atCalls) :
          \E id \in DOMAIN signals :
              /\ signals[id].destination = Some(atCalls[k].to)
              /\ atCalls[k].from = signals[id].source
              /\ atCalls[k].pos = IF signals[id].position < ClampMax
                                  THEN signals[id].position ELSE ClampMax

\* a signal left at position 12 is drawn on the last segment of a merged
\* profile of 8 samples
C24_Witness ==
    /\ Len(atCalls) = 1
    /\ signals[1].position = 12 * UnitAt
    /\ atCalls[1].pos = ClampMax
    /\ atCalls[1].result.len = 8
    /\ atCalls[1].result.index = 6

\* a signal exactly at position 1, as signal_travel leaves it on arrival
C24_AtOne ==
    /\ Len(atCalls) = 1
    /\ signals[1].position = UnitAt
    /\ atCalls[1].pos = ClampMax
    /\ atCalls[1].result.len = 2

\* C25 - Termination on acyclic graphs: on a level that stays loaded and whose
\* junction graph is a forest, with time advancing in every tick, every live
\* signal is eventually despawned: from some frame on no signal remains
\* (whence every signal that ever lived has been despawned).
C25_ForestTermination == <>[](DOMAIN signals = {})

\* the last of the signals a fan-out made has just been despawned at its dead
\* end: the acceptor's junction has two edges or more
C25_Witness ==
    /\ Forest(layer)
    /\ pc = "Update"
    /\ ran = {}
    /\ DOMAIN signals = {}
    /\ \E i \in 1 .. Len(routed) : routed[i].ev.sender # routed[i].ev.receiver
    /\ \E e \in TileEnts : HasAcceptor(layer, e) /\ Len(pipes[e]) >= 2
    /\ \A p \in ProjIds : ~ projectiles[p].alive

\* the hostilities of the projectiles that were in flight: a despawned
\* projectile keeps its record
AcceptedHostilities == {projectiles[p].hostility : p \in ProjIds}

\* every live signal, every queued spawn and every queued projectile creation
\* carries the hostility of the accepted projectile
PayloadFromProjectile ==
    /\ \A id \in DOMAIN signals : signals[id].data \in AcceptedHostilities
    /\ \A c \in 1 .. Len(commands) :
          /\ commands[c].op = "spawn" => commands[c].signal.data \in AcceptedHostilities
          /\ commands[c].op = "create_projectile"
                => commands[c].hostility \in AcceptedHostilities

\* no step changes the payload of a signal that lives on
PayloadKept ==
    \A id \in DOMAIN signals \cap DOMAIN signals' : signals'[id].data = signals[id].data

\* C26 - Payload is preserved end to end: a signal's payload never changes,
\* a signal spawned by fan-out carries the payload of the signal it was
\* duplicated from, and every projectile a Generator emits has the hostility
\* of the projectile whose acceptance created the originating signal.
C26_PayloadPreserved == [][PayloadKept]_vars /\ []PayloadFromProjectile

\* a Hostile projectile was accepted; two signals of the fan-out live, and a
\* generator has queued a Hostile projectile for one of them
C26_Witness ==
    /\ AcceptedHostilities = {"Hostile"}
    /\ Cardinality(DOMAIN signals) >= 2
    /\ \E c \in 1 .. Len(commands) : commands[c] = CreateProjectile("Hostile")

\* the spawns accept_projectiles queued for projectile p: each follows the
\* despawn of p it queued just before
AcceptedSpawns(p) ==
    {c \in 2 .. Len(commands) :
        /\ commands[c].op = "spawn"
        /\ commands[c].signal.destination = None
        /\ commands[c - 1] = DespawnProjectile(p)}

\* C27 - One signal per accepted projectile: a projectile is converted into
\* at most one signal and at most one self-arrival event, even when several
\* hit events of one frame name it.
C27_OneSignalPerProjectile ==
    Accepted =>
        /\ \A p \in ProjIds : Cardinality(AcceptedSpawns(p)) <= 1
        /\ Cardinality(SelfArrivals)
              <= Cardinality({p \in ProjIds : AcceptedSpawns(p) # {}})

\* the number of directed edges of the junction graph
RECURSIVE EdgesFrom(_)
EdgesFrom(e) == IF e > GridW * GridH THEN 0 ELSE Len(pipes[e]) + EdgesFrom(e + 1)

DirectedEdges == EdgesFrom(1)

\* C28 - Bounded signal population: on a fixed junction graph, from one
\* accepted projectile, the number of live signals never exceeds the number
\* of directed edges of the graph, cycles sharing a junction included.
C28_BoundedPopulation ==
    built => Cardinality(DOMAIN signals) <= DirectedEdges

\* the layer with a pipe segment in place of every chute: the same junctions,
\* none with a Generator
Ungenerated(l) == [pos \in Pos |-> IF l[pos] = "Chute" THEN "Blue" ELSE l[pos]]

\* the router's turn for r, on a layer without Generator
PlainTurn(r) ==
    RouteEvent([signals |-> r.pre.signals, commands |-> r.pre.commands, ok |-> TRUE],
               Ungenerated(layer), pipes, r.ev)

\* the event of r was sent a frame ago and the generator has read it
ReadByGenerator(r) ==
    \E j \in 1 .. Len(eventsA) :
        /\ j <= generatorRead
        /\ Pure(eventsA[j]) = r.ev
        /\ eventsA[j].age = 1

C29_ForwardedAtGenerator ==
    /\ pc = "PreUpdateFlush"
    /\ \E i \in 1 .. Len(routed) :
          /\ routed[i].ev.sender # routed[i].ev.receiver
          /\ HasGenerator(layer, routed[i].ev.receiver)
          /\ ReadByGenerator(routed[i])
          /\ Len(NewCommands(routed[i])) = 1
          /\ NewCommands(routed[i])[1].op = "spawn"
          /\ routed[i].post.signals[routed[i].ev.signal].source = routed[i].ev.receiver

\* the generator has queued a projectile for an arrival the router has not read
C29_ProjectileQueued ==
    /\ Generated
    /\ \E k \in 1 .. Len(arrivals) :
          /\ HasGenerator(layer, arrivals[k].receiver)
          /\ \E c \in 1 .. Len(commands) :
                commands[c] = CreateProjectile(signals[arrivals[k].signal].data)

\* the elements of a sequence in the opposite order
Reverse(g) == [i \in 1 .. Len(g) |-> g[Len(g) + 1 - i]]

\* C30 - Bulge profile reversal symmetry: for two junctions A and B that both
\* have profiles, of the same length, graph(B, A) is the element-wise reverse
\* of graph(A, B).
C30_ReversalSymmetry ==
    drawn # None =>
       LET call == drawn[1]
           a == buldges[call.from]
           b == buldges[call.to]
       IN  (a # None /\ b # None /\ Len(a[1].outgoing) = Len(b[1].outgoing))
              => /\ a[1].incoming = Reverse(a[1].outgoing)
                 /\ b[1].incoming = Reverse(b[1].outgoing)
                 /\ GraphOf(buldges, call.to, call.from) = Reverse(call.graph)

\* graph(A, B) of two different profiles of three samples, not the same read
\* backwards
C30_Witness ==
    /\ drawn # None
    /\ drawn[1].from # drawn[1].to
    /\ buldges[drawn[1].from] # None
    /\ buldges[drawn[1].to] # None
    /\ Len(buldges[drawn[1].from][1].outgoing) = 3
    /\ Len(buldges[drawn[1].to][1].outgoing) = 3
    /\ buldges[drawn[1].from] # buldges[drawn[1].to]
    /\ drawn[1].graph # Reverse(drawn[1].graph)
    /\ drawn[1].graph # buldges[drawn[1].from][1].outgoing
    /\ drawn[1].graph # buldges[drawn[1].to][1].incoming

====
